---- MODULE Spec2Model ----
(***************************************************************************)
(* Webhook reconciliation of the billing integration layer: the handlers   *)
(* of lib/stripe/webhook-handlers (src/unnamed/part_000, lines 570-1019)   *)
(* acting on the Customer / Subscription / Invoice / Payment tables        *)
(* through the repository interface.                                       *)
(*                                                                         *)
(* One action per handler invocation.  An invocation is a sequence of      *)
(* awaited calls; the input `fail` names the awaited call that rejects     *)
(* (0: none), the last index being the analytics backend write.  `last`    *)
(* is the observation of the most recent invocation: the event, the table  *)
(* before it, the calls it issued, how it ended.  clearAllMocks forgets it *)
(* (beforeEach of the handlers' test suite).                               *)
(***************************************************************************)
EXTENDS Integers, Sequences, FiniteSets, TLC

VARIABLES
  customers,      \* Customer table: sequence of rows
  subscriptions,  \* Subscription table: sequence of rows, in insertion order
  invoices,       \* Invoice table
  payments,       \* Payment table
  now,            \* the latest clock reading, Math.floor(Date.now() / 1000)
  last,           \* observation of the most recent handler invocation
  inv,            \* the concurrent invocations in flight
  stripe          \* the provider's side: the customers created there

vars == <<customers, subscriptions, invoices, payments, now, last, inv,
          stripe>>

----------------------------------------------------------------------------
(* Bounds and value domains *)

\* Clock readings range over 0..MaxTime.
MaxTime == 1

\* JavaScript null in a nullable numeric column or payload field.
NULL == -1

\* JavaScript undefined / null for a string-valued expression.
UNDEFINED == "undefined"

\* A property that the payload does not carry.
Absent == [undefined |-> TRUE]

SubId == "sub_1"
KnownCustomer == "cus_1"
UnknownCustomer == "cus_9"

\* An expandable reference of a payload: the id as a string, or the object.
AsString(id) == [string |-> id]
AsObject(id) == [id |-> id]

\* typeof ref === 'string' ? ref : ref.id   (ref?.id for a null reference)
RefId(ref) ==
  IF "string" \in DOMAIN ref THEN ref.string
  ELSE IF "id" \in DOMAIN ref THEN ref.id
  ELSE UNDEFINED

LineItem(price) == [price |-> [id |-> price]]

EventStatuses == {"active", "past_due"}
ItemLists ==
  { Absent, [data |-> <<>>], [data |-> <<LineItem("price_a")>>],
    [data |-> <<LineItem("price_b"), LineItem("price_a")>>] }
Periods == {<<1000, 2000>>, <<2000, 3000>>}
Trials == {<<NULL, NULL>>, <<1000, 1500>>}
CanceledAts == {NULL, 1500}
EndedAts == {NULL, 1600}

\* data.object of a customer.subscription.* event
SubscriptionObject(c, s, it, p, cape, ca, ea, tr) ==
  [id |-> SubId, customer |-> c, status |-> s, items |-> it,
   current_period_start |-> p[1], current_period_end |-> p[2],
   cancel_at_period_end |-> cape, canceled_at |-> ca, ended_at |-> ea,
   trial_start |-> tr[1], trial_end |-> tr[2]]

\* customer.subscription.created: a new subscription has not been canceled.
\* For a customer this application does not know the handler returns before
\* it reads anything else, so that payload takes one value.
SubscriptionCreatedEvents ==
  { SubscriptionObject(c, s, it, p, cape, NULL, NULL, tr) :
      c \in {AsString(KnownCustomer), AsObject(KnownCustomer)},
      s \in EventStatuses, it \in ItemLists, p \in Periods,
      cape \in BOOLEAN, tr \in Trials }
  \cup
  { SubscriptionObject(AsString(UnknownCustomer), "active",
                       [data |-> <<LineItem("price_a")>>], <<1000, 2000>>,
                       FALSE, NULL, NULL, <<NULL, NULL>>) }

\* customer.subscription.updated
SubscriptionUpdatedEvents ==
  { SubscriptionObject(AsString(KnownCustomer), s, it, p, cape, ca, ea, tr) :
      s \in EventStatuses, it \in ItemLists, p \in Periods,
      cape \in BOOLEAN, ca \in CanceledAts, ea \in EndedAts, tr \in Trials }

\* customer.subscription.deleted: the handler reads id, canceled_at and
\* ended_at only, so the other fields take one value.
SubscriptionDeletedEvents ==
  { SubscriptionObject(AsString(KnownCustomer), "canceled", Absent,
                       <<1000, 2000>>, FALSE, ca, ea, <<NULL, NULL>>) :
      ca \in CanceledAts, ea \in EndedAts }

----------------------------------------------------------------------------
(* Store adapter *)

NoRow == [id |-> NULL]

\* Mutant of Found: every lookup is taken to have found its row.
FoundAlways(row) == TRUE

\* if (row): the lookup did not answer null
Found(row) == row.id # NULL

\* Positions of the rows whose column `key` equals `val`.
Matching(table, key, val) == {i \in 1..Len(table) : table[i][key] = val}

\* findBy<ExternalId>: the first row whose column `key` equals `val`, or null.
findBy(table, key, val) ==
  IF Matching(table, key, val) # {}
    THEN table[CHOOSE i \in Matching(table, key, val) :
                 \A j \in Matching(table, key, val) : i <= j]
    ELSE NoRow

\* update<ById>(id, partialInput): the keys the input defines replace the
\* row's columns; a key the input leaves undefined keeps the stored value.
\* No matching row: nothing is written.
updateBy(table, key, val, patch) ==
  [i \in 1..Len(table) |->
     IF table[i][key] = val
       THEN [f \in DOMAIN table[i] |->
               IF f \in DOMAIN patch THEN patch[f] ELSE table[i][f]]
       ELSE table[i]]

\* create(input): a new row with the next local id; a column the input
\* leaves undefined takes its default.
create(table, input, defaults) ==
  Append(table, [id |-> Len(table) + 1] @@ input @@ defaults)

\* The unique index on a table's external id rejects a second row with it.
uniqueViolation(table, key, input) == Matching(table, key, input[key]) # {}

\* The key k with value v, left out when v is null (v ?? undefined).
Defined(k, v) == IF v = NULL THEN <<>> ELSE k :> v

\* The same for a string-valued v.
DefinedStr(k, v) == IF v = UNDEFINED THEN <<>> ELSE k :> v

SubscriptionDefaults ==
  [canceledAt |-> NULL, endedAt |-> NULL, trialStart |-> NULL,
   trialEnd |-> NULL]

----------------------------------------------------------------------------
(* What one handler invocation leaves behind *)

Idle == [op |-> "idle"]

\* The invocation resolved (its promise fulfilled).
Returned(table, calls, notes, logs) ==
  [table |-> table, result |-> "returned", calls |-> calls, notes |-> notes,
   logs |-> logs]

\* Mutant of Threw: the exception is swallowed and the invocation resolves.
ThrewSwallowed(table, calls, notes, logs) ==
  [table |-> table, result |-> "returned", calls |-> calls, notes |-> notes,
   logs |-> logs]

\* The invocation rejected: the exception reached the caller.
Threw(table, calls, notes, logs) ==
  [table |-> table, result |-> "threw", calls |-> calls, notes |-> notes,
   logs |-> logs]

\* analytics.trackBusinessEvent: trackEvent catches a failing backend write
\* and logs it; the call itself never rejects.
trackBusinessEvent(type, sinkFails) ==
  [type |-> type, sink |-> IF sinkFails THEN "failed" ELSE "ok"]

\* items.data[0]?.price.id, for items that are present
FirstPriceId(items) ==
  IF Len(items.data) > 0 THEN items.data[1].price.id ELSE UNDEFINED

\* items.data[0]?.price.id raises a TypeError: items is absent, or the first
\* line item is there without a price (?. guards data[0] only).
PriceIdThrows(items) ==
  \/ items = Absent
  \/ Len(items.data) > 0 /\ items.data[1].price = Absent

\* How many of `calls` are the call `name`.
Count(calls, name) == Cardinality({i \in 1..Len(calls) : calls[i] = name})

----------------------------------------------------------------------------
(* customer.subscription.created *)

\* Mutant of isDuplicate: the existence check is lost.
isDuplicateNever(existing) == FALSE

\* if (existing): the event is a duplicate delivery
isDuplicate(existing) == Found(existing)

\* Mutant of duplicatePatch: the period end is copied from the period start.
duplicatePatchPeriodSlip(ev) ==
  [status |-> ev.status,
   currentPeriodStart |-> ev.current_period_start,
   currentPeriodEnd |-> ev.current_period_start,
   cancelAtPeriodEnd |-> ev.cancel_at_period_end]

\* The fields the duplicate path writes.
duplicatePatch(ev) ==
  [status |-> ev.status,
   currentPeriodStart |-> ev.current_period_start,
   currentPeriodEnd |-> ev.current_period_end,
   cancelAtPeriodEnd |-> ev.cancel_at_period_end]

\* The row the create path inserts.
subscriptionInput(ev, customer, priceId) ==
  [customerId |-> customer.id,
   stripeSubscriptionId |-> ev.id,
   stripePriceId |-> priceId,
   status |-> ev.status,
   currentPeriodStart |-> ev.current_period_start,
   currentPeriodEnd |-> ev.current_period_end,
   cancelAtPeriodEnd |-> ev.cancel_at_period_end]
  @@ Defined("trialStart", ev.trial_start)
  @@ Defined("trialEnd", ev.trial_end)

handleSubscriptionCreated(ev, fail) ==
  LET customer == findBy(customers, "stripeCustomerId", RefId(ev.customer))
      existing == findBy(subscriptions, "stripeSubscriptionId", ev.id)
      priceId  == FirstPriceId(ev.items)
      input == subscriptionInput(ev, customer, priceId)
      c1 == <<"customers.findByStripeCustomerId">>
      c2 == Append(c1, "subscriptions.findByStripeSubscriptionId")
      cU == Append(c2, "subscriptions.updateByStripeSubscriptionId")
      cC == Append(c2, "subscriptions.create")
  IN
  IF fail = 1 THEN Threw(subscriptions, c1, <<>>, <<"info">>)
  ELSE IF ~Found(customer)
    THEN Returned(subscriptions, c1, <<>>, <<"info", "warn">>)
  ELSE IF fail = 2 THEN Threw(subscriptions, c2, <<>>, <<"info">>)
  ELSE IF isDuplicate(existing)
    THEN IF fail = 3
           THEN Threw(subscriptions, cU, <<>>, <<"info", "info">>)
           ELSE Returned(updateBy(subscriptions, "stripeSubscriptionId",
                                  ev.id, duplicatePatch(ev)),
                         cU, <<>>, <<"info", "info">>)
  \* subscription.items.data of absent items: a TypeError
  ELSE IF PriceIdThrows(ev.items)
    THEN Threw(subscriptions, c2, <<>>, <<"info">>)
  ELSE IF priceId = UNDEFINED
    THEN Returned(subscriptions, c2, <<>>, <<"info", "error">>)
  ELSE IF fail = 3
         \/ uniqueViolation(subscriptions, "stripeSubscriptionId", input)
    THEN Threw(subscriptions, cC, <<>>, <<"info">>)
  ELSE Returned(create(subscriptions, input, SubscriptionDefaults), cC,
                <<trackBusinessEvent("subscription.created", fail = 4)>>,
                <<"info">>)

----------------------------------------------------------------------------
(* customer.subscription.updated *)

\* Mutant of updatedPatch: the status is left out of the update.
updatedPatchWithoutStatus(ev, priceId) ==
  DefinedStr("stripePriceId", priceId)
  @@ [currentPeriodStart |-> ev.current_period_start,
      currentPeriodEnd |-> ev.current_period_end,
      cancelAtPeriodEnd |-> ev.cancel_at_period_end]
  @@ Defined("canceledAt", ev.canceled_at)
  @@ Defined("endedAt", ev.ended_at)
  @@ Defined("trialStart", ev.trial_start)
  @@ Defined("trialEnd", ev.trial_end)

\* The fields the update writes.
updatedPatch(ev, priceId) ==
  DefinedStr("stripePriceId", priceId)
  @@ [status |-> ev.status,
      currentPeriodStart |-> ev.current_period_start,
      currentPeriodEnd |-> ev.current_period_end,
      cancelAtPeriodEnd |-> ev.cancel_at_period_end]
  @@ Defined("canceledAt", ev.canceled_at)
  @@ Defined("endedAt", ev.ended_at)
  @@ Defined("trialStart", ev.trial_start)
  @@ Defined("trialEnd", ev.trial_end)

handleSubscriptionUpdated(ev, fail) ==
  LET cU == <<"subscriptions.updateByStripeSubscriptionId">> IN
  \* the price id is read before the try block: absent items, a TypeError
  IF PriceIdThrows(ev.items)
    THEN Threw(subscriptions, <<>>, <<>>, <<"info">>)
  ELSE IF fail = 1
    THEN Returned(subscriptions, cU, <<>>, <<"info", "error">>)
  ELSE Returned(updateBy(subscriptions, "stripeSubscriptionId", ev.id,
                         updatedPatch(ev, FirstPriceId(ev.items))),
                cU,
                <<trackBusinessEvent("subscription.updated", fail = 2)>>,
                <<"info">>)

----------------------------------------------------------------------------
(* customer.subscription.deleted *)

\* Mutant of deletedPatch: ended-at falls back on the clock whenever
\* canceled-at is missing, whatever the event's ended_at.
deletedPatchEndedSlip(ev, t1, t2) ==
  [status |-> "canceled",
   canceledAt |-> IF ev.canceled_at # NULL THEN ev.canceled_at ELSE t1,
   endedAt |-> IF ev.canceled_at # NULL THEN ev.ended_at ELSE t2]

\* The fields the update writes; t1 and t2 are the two readings of the
\* clock, in evaluation order.
deletedPatch(ev, t1, t2) ==
  [status |-> "canceled",
   canceledAt |-> IF ev.canceled_at # NULL THEN ev.canceled_at ELSE t1,
   endedAt |-> IF ev.ended_at # NULL THEN ev.ended_at ELSE t2]

\* Mutant of handleSubscriptionDeleted: the ended subscription's row is
\* removed instead of updated.
handleSubscriptionDeletedRemovesRow(ev, fail, t1, t2) ==
  LET cU == <<"subscriptions.updateByStripeSubscriptionId">> IN
  IF fail = 1
    THEN Returned(subscriptions, cU, <<>>, <<"info", "error">>)
    ELSE Returned(SelectSeq(subscriptions,
                            LAMBDA r : r.stripeSubscriptionId # ev.id),
                  cU,
                  <<trackBusinessEvent("subscription.ended", fail = 2)>>,
                  <<"info">>)

handleSubscriptionDeleted(ev, fail, t1, t2) ==
  LET cU == <<"subscriptions.updateByStripeSubscriptionId">> IN
  IF fail = 1
    THEN Returned(subscriptions, cU, <<>>, <<"info", "error">>)
    ELSE Returned(updateBy(subscriptions, "stripeSubscriptionId", ev.id,
                           deletedPatch(ev, t1, t2)),
                  cU,
                  <<trackBusinessEvent("subscription.ended", fail = 2)>>,
                  <<"info">>)

----------------------------------------------------------------------------
(* Actions of the subscription handlers *)

Observe(op, ev, pre, o) ==
  [op |-> op, ev |-> ev, pre |-> pre, result |-> o.result,
   calls |-> o.calls, notes |-> o.notes, logs |-> o.logs]

SubscriptionCreated ==
  /\ last = Idle
  /\ \E ev \in SubscriptionCreatedEvents, fail \in 0..4 :
       LET o == handleSubscriptionCreated(ev, fail) IN
       /\ subscriptions' = o.table
       /\ last' = Observe("customer.subscription.created", ev,
                          subscriptions, o)
  /\ UNCHANGED <<customers, invoices, payments, now, inv, stripe>>

SubscriptionUpdated ==
  /\ last = Idle
  /\ \E ev \in SubscriptionUpdatedEvents, fail \in 0..2 :
       LET o == handleSubscriptionUpdated(ev, fail) IN
       /\ subscriptions' = o.table
       /\ last' = Observe("customer.subscription.updated", ev,
                          subscriptions, o)
  /\ UNCHANGED <<customers, invoices, payments, now, inv, stripe>>

\* The clock does not run backwards: now <= t1 <= t2.
SubscriptionDeleted ==
  /\ last = Idle
  /\ \E ev \in SubscriptionDeletedEvents, fail \in 0..2,
        t1 \in now..MaxTime :
       \E t2 \in t1..MaxTime :
         LET o == handleSubscriptionDeleted(ev, fail, t1, t2) IN
         /\ subscriptions' = o.table
         /\ now' = t2
         /\ last' = Observe("customer.subscription.deleted",
                            ev @@ [clock |-> <<t1, t2>>],
                            subscriptions, o)
  /\ UNCHANGED <<customers, invoices, payments, inv, stripe>>

\* vi.clearAllMocks(): the observation of the previous invocation is dropped.
clearAllMocks ==
  /\ last # Idle
  /\ last' = Idle
  /\ UNCHANGED <<customers, subscriptions, invoices, payments, now, inv, stripe>>

----------------------------------------------------------------------------
(* invoice.paid and invoice.payment_failed *)

InvoiceId == "in_1"

\* A reference the payload carries as null (or not at all).
NullRef == [null |-> TRUE]

\* invoice.subscription: none, the earlier subscription, or one without a
\* local row.
InvoiceSubscriptions == {NullRef, AsString("sub_0"), AsObject(SubId)}
AmountsDue == {500, 900}
AmountsPaid == {500, 900}
\* currency, period_start, period_end
Billings == {<<"usd", 100, 200>>, <<"eur", 200, 300>>}
HostedUrls == {UNDEFINED, "https://invoice/in_1"}
PdfUrls == {UNDEFINED, "https://invoice/in_1.pdf"}

\* data.object of an invoice.* event
InvoiceObject(c, sub, due, paid, b, url, pdf) ==
  [id |-> InvoiceId, customer |-> c, subscription |-> sub,
   amount_due |-> due, amount_paid |-> paid, currency |-> b[1],
   period_start |-> b[2], period_end |-> b[3],
   hosted_invoice_url |-> url, invoice_pdf |-> pdf]

\* Without a customer the handlers return before they read anything else,
\* so those payloads take one value.
UnattributedInvoices ==
  { InvoiceObject(c, NullRef, 500, 500, <<"usd", 100, 200>>, UNDEFINED,
                  UNDEFINED) : c \in {AsString(UnknownCustomer), NullRef} }

InvoicePaidEvents ==
  { InvoiceObject(c, sub, due, paid, b, url, pdf) :
      c \in {AsString(KnownCustomer), AsObject(KnownCustomer)},
      sub \in InvoiceSubscriptions, due \in AmountsDue, paid \in AmountsPaid,
      b \in Billings, url \in HostedUrls, pdf \in PdfUrls }
  \cup UnattributedInvoices

\* The payment-failed handler reads neither amount_paid nor invoice_pdf.
InvoicePaymentFailedEvents ==
  { InvoiceObject(c, sub, due, 500, b, url, UNDEFINED) :
      c \in {AsString(KnownCustomer), AsObject(KnownCustomer)},
      sub \in InvoiceSubscriptions, due \in AmountsDue,
      b \in Billings, url \in HostedUrls }
  \cup UnattributedInvoices

InvoiceDefaults ==
  [subscriptionId |-> NULL, invoiceUrl |-> UNDEFINED, invoicePdf |-> UNDEFINED]

\* if (invoiceWithSub.subscription)
hasSubscription(invoice) == invoice.subscription # NullRef

\* subscription?.id of the local row, undefined when there is none
resolvedSubscriptionId(invoice) ==
  LET row == findBy(subscriptions, "stripeSubscriptionId",
                    RefId(invoice.subscription))
  IN IF hasSubscription(invoice) /\ Found(row) THEN row.id ELSE NULL

\* Mutant of invoiceExists: the existence check is lost.
invoiceExistsNever(existing) == FALSE

\* if (existing)
invoiceExists(existing) == Found(existing)

\* The fields invoice.paid writes on an existing invoice.
paidPatch(invoice) ==
  [status |-> "paid", amountPaid |-> invoice.amount_paid]
  @@ DefinedStr("invoiceUrl", invoice.hosted_invoice_url)
  @@ DefinedStr("invoicePdf", invoice.invoice_pdf)

\* The row invoice.paid inserts.
paidInput(invoice, customer, subscriptionId) ==
  [customerId |-> customer.id,
   stripeInvoiceId |-> invoice.id,
   amountDue |-> invoice.amount_due,
   amountPaid |-> invoice.amount_paid,
   currency |-> invoice.currency,
   status |-> "paid",
   periodStart |-> invoice.period_start,
   periodEnd |-> invoice.period_end]
  @@ Defined("subscriptionId", subscriptionId)
  @@ DefinedStr("invoiceUrl", invoice.hosted_invoice_url)
  @@ DefinedStr("invoicePdf", invoice.invoice_pdf)

\* Mutant of failedPatch: the amount paid is reset with the status.
failedPatchResetsPaid(invoice) == [status |-> "open", amountPaid |-> 0]

\* The fields invoice.payment_failed writes on an existing invoice.
failedPatch(invoice) == [status |-> "open"]

\* Mutant of failedInput: the amount paid is copied from the event.
failedInputCopiesPaid(invoice, customer, subscriptionId) ==
  [customerId |-> customer.id,
   stripeInvoiceId |-> invoice.id,
   amountDue |-> invoice.amount_due,
   amountPaid |-> invoice.amount_paid,
   currency |-> invoice.currency,
   status |-> "open",
   periodStart |-> invoice.period_start,
   periodEnd |-> invoice.period_end]
  @@ Defined("subscriptionId", subscriptionId)
  @@ DefinedStr("invoiceUrl", invoice.hosted_invoice_url)

\* The row invoice.payment_failed inserts.
failedInput(invoice, customer, subscriptionId) ==
  [customerId |-> customer.id,
   stripeInvoiceId |-> invoice.id,
   amountDue |-> invoice.amount_due,
   amountPaid |-> 0,
   currency |-> invoice.currency,
   status |-> "open",
   periodStart |-> invoice.period_start,
   periodEnd |-> invoice.period_end]
  @@ Defined("subscriptionId", subscriptionId)
  @@ DefinedStr("invoiceUrl", invoice.hosted_invoice_url)

\* The two handlers share their control flow: resolve the customer, resolve
\* the subscription, find the invoice, update or create it, notify.
\* `early` are the logs of the paths that return without a customer.
reconcileInvoice(invoice, fail, patch, input, note, first, early) ==
  LET stripeCustomerId == RefId(invoice.customer)
      customer == findBy(customers, "stripeCustomerId", stripeCustomerId)
      n == IF hasSubscription(invoice) THEN 1 ELSE 0
      existing == findBy(invoices, "stripeInvoiceId", invoice.id)
      c1 == <<"customers.findByStripeCustomerId">>
      c2 == IF n = 1
              THEN Append(c1, "subscriptions.findByStripeSubscriptionId")
              ELSE c1
      c3 == Append(c2, "invoices.findByStripeInvoiceId")
      cU == Append(c3, "invoices.updateByStripeInvoiceId")
      cC == Append(c3, "invoices.create")
  IN
  IF stripeCustomerId = UNDEFINED
    THEN Returned(invoices, <<>>, <<>>, early)
  ELSE IF fail = 1 THEN Threw(invoices, c1, <<>>, first)
  ELSE IF ~Found(customer) THEN Returned(invoices, c1, <<>>, early)
  ELSE IF n = 1 /\ fail = 2 THEN Threw(invoices, c2, <<>>, first)
  ELSE IF fail = 2 + n THEN Threw(invoices, c3, <<>>, first)
  ELSE IF invoiceExists(existing)
    THEN IF fail = 3 + n
           THEN Threw(invoices, cU, <<>>, first)
           ELSE Returned(updateBy(invoices, "stripeInvoiceId", invoice.id,
                                  patch),
                         cU, <<trackBusinessEvent(note, fail = 4 + n)>>,
                         first)
  ELSE IF fail = 3 + n \/ uniqueViolation(invoices, "stripeInvoiceId", input)
    THEN Threw(invoices, cC, <<>>, first)
  ELSE Returned(create(invoices, input, InvoiceDefaults), cC,
                <<trackBusinessEvent(note, fail = 4 + n)>>, first)

handleInvoicePaid(invoice, fail) ==
  reconcileInvoice(invoice, fail, paidPatch(invoice),
    paidInput(invoice,
              findBy(customers, "stripeCustomerId", RefId(invoice.customer)),
              resolvedSubscriptionId(invoice)),
    "payment.succeeded", <<"info">>, <<"info", "warn">>)

handleInvoicePaymentFailed(invoice, fail) ==
  reconcileInvoice(invoice, fail, failedPatch(invoice),
    failedInput(invoice,
                findBy(customers, "stripeCustomerId", RefId(invoice.customer)),
                resolvedSubscriptionId(invoice)),
    "payment.failed", <<"warn">>, <<"warn">>)

InvoicePaid ==
  /\ last = Idle
  /\ \E ev \in InvoicePaidEvents, fail \in 0..5 :
       LET o == handleInvoicePaid(ev, fail) IN
       /\ invoices' = o.table
       /\ last' = Observe("invoice.paid", ev, invoices, o)
  /\ UNCHANGED <<customers, subscriptions, payments, now, inv, stripe>>

InvoicePaymentFailed ==
  /\ last = Idle
  /\ \E ev \in InvoicePaymentFailedEvents, fail \in 0..5 :
       LET o == handleInvoicePaymentFailed(ev, fail) IN
       /\ invoices' = o.table
       /\ last' = Observe("invoice.payment_failed", ev, invoices, o)
  /\ UNCHANGED <<customers, subscriptions, payments, now, inv, stripe>>

----------------------------------------------------------------------------
(* checkout.session.completed *)

\* Rows the payments table may hold before the handler stops being offered
\* payment-mode sessions.
MaxPayments == 2

SessionId == "cs_1"

\* What parseInt yields for a string with no leading digits.
NaN == -2

Digits == <<"0", "1", "2", "3", "4", "5", "6", "7", "8", "9">>
IsDigit(ch) == \E d \in 1..10 : Digits[d] = ch
DigitValue(ch) == (CHOOSE d \in 1..10 : Digits[d] = ch) - 1

\* The value of the longest prefix of digits of `chars`, continuing `acc`.
RECURSIVE ParseDigits(_, _)
ParseDigits(chars, acc) ==
  IF chars = <<>> \/ ~IsDigit(Head(chars)) THEN acc
  ELSE ParseDigits(Tail(chars), 10 * acc + DigitValue(Head(chars)))

\* Mutant of ParseInt: only the first digit is read.
ParseIntFirstDigit(chars) ==
  IF chars = <<>> \/ ~IsDigit(Head(chars)) THEN NaN
  ELSE DigitValue(Head(chars))

\* parseInt(customerId, 10) of a string given as its characters
ParseInt(chars) ==
  IF chars = <<>> \/ ~IsDigit(Head(chars)) THEN NaN
  ELSE ParseDigits(chars, 0)

SessionModes == {"payment", "subscription", "setup"}
\* session.metadata: null, without customerId, or with the local customer
\* id the checkout route wrote as String(customer.id).
SessionMetadata ==
  { NullRef, [userId |-> <<"1">>],
    [userId |-> <<"1">>, customerId |-> <<"7">>],
    [userId |-> <<"1">>, customerId |-> <<"1", "2">>] }
PaymentIntents == {UNDEFINED, "pi_1"}
AmountTotals == {NULL, 0, 2000}
SessionCurrencies == {UNDEFINED, "eur"}

CheckoutSessionCompletedEvents ==
  { [id |-> SessionId, mode |-> m, metadata |-> md, payment_intent |-> pi,
     amount_total |-> amt, currency |-> cur] :
      m \in SessionModes, md \in SessionMetadata, pi \in PaymentIntents,
      amt \in AmountTotals, cur \in SessionCurrencies }

PaymentDefaults == [stripePaymentIntentId |-> UNDEFINED]

\* session.metadata?.customerId
metadataCustomerId(session) ==
  IF "customerId" \in DOMAIN session.metadata
    THEN session.metadata.customerId ELSE <<>>

\* session.amount_total || 0
amountOrZero(session) ==
  IF session.amount_total = NULL THEN 0 ELSE session.amount_total

\* session.currency || 'usd'
currencyOrUsd(session) ==
  IF session.currency = UNDEFINED THEN "usd" ELSE session.currency

\* Mutant of modeCreatesPayment: every mode is treated as a payment.
modeCreatesPaymentAlways(session) == TRUE

\* if (session.mode === 'payment')
modeCreatesPayment(session) == session.mode = "payment"

\* The row the handler inserts for a one-time payment.
paymentInput(session, dbCustomerId) ==
  [customerId |-> dbCustomerId,
   stripeCheckoutSessionId |-> session.id,
   amount |-> amountOrZero(session),
   currency |-> currencyOrUsd(session),
   status |-> "succeeded",
   description |-> "One-time payment via checkout",
   metadata |-> session.metadata]
  @@ DefinedStr("stripePaymentIntentId", session.payment_intent)

\* Mutant of handleCheckoutSessionCompleted: a failing analytics sink
\* rejects the invocation.
handleCheckoutSessionCompletedSinkThrows(session, fail) ==
  LET customerId == metadataCustomerId(session)
      dbCustomerId == ParseInt(customerId)
      written == create(payments, paymentInput(session, dbCustomerId),
                        PaymentDefaults)
  IN
  IF customerId = <<>>
    THEN Returned(payments, <<>>, <<>>, <<"info", "warn">>)
  ELSE IF modeCreatesPayment(session)
    THEN IF fail = 1
           THEN Threw(payments, <<"payments.create">>, <<>>, <<"info">>)
         ELSE IF fail = 2
           THEN Threw(written, <<"payments.create">>,
                      <<trackBusinessEvent("payment.succeeded", TRUE)>>,
                      <<"info">>)
         ELSE Returned(written, <<"payments.create">>,
                       <<trackBusinessEvent("payment.succeeded", FALSE)>>,
                       <<"info">>)
  ELSE IF session.mode = "subscription"
    THEN Returned(payments, <<>>, <<>>, <<"info", "info">>)
  ELSE Returned(payments, <<>>, <<>>, <<"info">>)

\* fail = 1: payments.create rejects; fail = 2: the analytics sink fails.
handleCheckoutSessionCompleted(session, fail) ==
  LET customerId == metadataCustomerId(session)
      dbCustomerId == ParseInt(customerId)
  IN
  IF customerId = <<>>
    THEN Returned(payments, <<>>, <<>>, <<"info", "warn">>)
  ELSE IF modeCreatesPayment(session)
    THEN IF fail = 1
           THEN Threw(payments, <<"payments.create">>, <<>>, <<"info">>)
           ELSE Returned(create(payments, paymentInput(session, dbCustomerId),
                                PaymentDefaults),
                         <<"payments.create">>,
                         <<trackBusinessEvent("payment.succeeded", fail = 2)>>,
                         <<"info">>)
  ELSE IF session.mode = "subscription"
    THEN Returned(payments, <<>>, <<>>, <<"info", "info">>)
  ELSE Returned(payments, <<>>, <<>>, <<"info">>)

CheckoutSessionCompleted ==
  /\ last = Idle
  /\ Len(payments) < MaxPayments
  /\ \E ev \in CheckoutSessionCompletedEvents, fail \in 0..2 :
       LET o == handleCheckoutSessionCompleted(ev, fail) IN
       /\ payments' = o.table
       /\ last' = Observe("checkout.session.completed", ev, payments, o)
  /\ UNCHANGED <<customers, subscriptions, invoices, now, inv, stripe>>

----------------------------------------------------------------------------
(* payment_intent.succeeded and payment_intent.payment_failed *)

\* A payment intent recorded by a checkout, and one never recorded.
PaymentIntentEvents == {[id |-> "pi_1"], [id |-> "pi_9"]}

\* Mutant of paymentExists: the update is issued without a row.
paymentExistsAlways(existing) == TRUE

\* if (existing)
paymentExists(existing) == Found(existing)

\* The two handlers differ in the status they write and in the level of
\* their first log line.  fail = 1: the lookup rejects; fail = 2: the update
\* rejects.  Both are caught and logged.
reconcilePaymentIntent(paymentIntent, fail, status, first) ==
  LET existing == findBy(payments, "stripePaymentIntentId", paymentIntent.id)
      c1 == <<"payments.findByPaymentIntentId">>
      cU == Append(c1, "payments.updateByPaymentIntentId")
  IN
  IF fail = 1 THEN Returned(payments, c1, <<>>, <<first, "error">>)
  ELSE IF ~paymentExists(existing)
    THEN Returned(payments, c1, <<>>, <<first>>)
  ELSE IF fail = 2 THEN Returned(payments, cU, <<>>, <<first, "error">>)
  ELSE Returned(updateBy(payments, "stripePaymentIntentId", paymentIntent.id,
                         [status |-> status]),
                cU, <<>>, <<first>>)

handlePaymentIntentSucceeded(paymentIntent, fail) ==
  reconcilePaymentIntent(paymentIntent, fail, "succeeded", "info")

\* Mutant of handlePaymentIntentFailed: a store failure is thrown again
\* after it is logged.
handlePaymentIntentFailedRethrows(paymentIntent, fail) ==
  LET o == reconcilePaymentIntent(paymentIntent, fail, "failed", "warn") IN
  IF fail \in 1..Len(o.calls) THEN Threw(payments, o.calls, <<>>, o.logs)
  ELSE o

handlePaymentIntentFailed(paymentIntent, fail) ==
  reconcilePaymentIntent(paymentIntent, fail, "failed", "warn")

PaymentIntentSucceeded ==
  /\ last = Idle
  /\ \E ev \in PaymentIntentEvents, fail \in 0..2 :
       LET o == handlePaymentIntentSucceeded(ev, fail) IN
       /\ payments' = o.table
       /\ last' = Observe("payment_intent.succeeded", ev, payments, o)
  /\ UNCHANGED <<customers, subscriptions, invoices, now, inv, stripe>>

PaymentIntentFailed ==
  /\ last = Idle
  /\ \E ev \in PaymentIntentEvents, fail \in 0..2 :
       LET o == handlePaymentIntentFailed(ev, fail) IN
       /\ payments' = o.table
       /\ last' = Observe("payment_intent.payment_failed", ev, payments, o)
  /\ UNCHANGED <<customers, subscriptions, invoices, now, inv, stripe>>

----------------------------------------------------------------------------
(* customer.created *)

CustomerCreatedEvents == {[id |-> KnownCustomer], [id |-> UnknownCustomer]}

\* Mutant of handleCustomerCreated: an unknown customer is stored.
handleCustomerCreatedStores(customer, fail) ==
  LET existing == findBy(customers, "stripeCustomerId", customer.id)
      c1 == <<"customers.findByStripeCustomerId">>
  IN
  IF fail = 1 THEN Threw(customers, c1, <<>>, <<"info">>)
  ELSE IF Found(existing)
    THEN Returned(customers, c1, <<>>, <<"info", "info">>)
  ELSE Returned(create(customers,
                       [userId |-> NULL, stripeCustomerId |-> customer.id],
                       <<>>),
                Append(c1, "customers.create"), <<>>, <<"info">>)

\* fail = 1: the lookup rejects; nothing catches it.
handleCustomerCreated(customer, fail) ==
  LET existing == findBy(customers, "stripeCustomerId", customer.id)
      c1 == <<"customers.findByStripeCustomerId">>
  IN
  IF fail = 1 THEN Threw(customers, c1, <<>>, <<"info">>)
  ELSE IF Found(existing)
    THEN Returned(customers, c1, <<>>, <<"info", "info">>)
  ELSE Returned(customers, c1, <<>>, <<"info", "warn">>)

----------------------------------------------------------------------------
(* The store before the first event *)

\* The customer of the specification's example scenario.
TheCustomer == [id |-> 7, userId |-> 1, stripeCustomerId |-> KnownCustomer]

\* The provider's side: the customers created there, each with the user id
\* its metadata carries.
TheProvider == [customers |-> <<[id |-> KnownCustomer, userId |-> 1]>>]

\* An earlier subscription of that customer, which no event is about.
OtherSubscription ==
  [id |-> 1, customerId |-> 7, stripeSubscriptionId |-> "sub_0",
   stripePriceId |-> "price_a", status |-> "canceled",
   currentPeriodStart |-> 1000, currentPeriodEnd |-> 2000,
   cancelAtPeriodEnd |-> FALSE, canceledAt |-> 1500, endedAt |-> 1600,
   trialStart |-> NULL, trialEnd |-> NULL]

Init ==
  /\ customers = <<TheCustomer>>
  /\ subscriptions = <<OtherSubscription>>
  /\ invoices = <<>>
  /\ payments = <<>>
  /\ now = 0
  /\ last = Idle
  /\ inv = <<>>
  /\ stripe = TheProvider

----------------------------------------------------------------------------
(* Specification of the subscription handlers, one event at a time *)

NextSub ==
  \/ SubscriptionCreated
  \/ SubscriptionUpdated
  \/ SubscriptionDeleted
  \/ clearAllMocks

SpecSub == Init /\ [][NextSub]_vars

----------------------------------------------------------------------------
(* Specification of the invoice handlers, one event at a time *)

NextInv ==
  \/ InvoicePaid
  \/ InvoicePaymentFailed
  \/ clearAllMocks

SpecInv == Init /\ [][NextInv]_vars

----------------------------------------------------------------------------
(* Specification of the handlers of the payments table, one event at a
   time *)

NextPay ==
  \/ CheckoutSessionCompleted
  \/ PaymentIntentSucceeded
  \/ PaymentIntentFailed
  \/ clearAllMocks

SpecPay == Init /\ [][NextPay]_vars

----------------------------------------------------------------------------
(* Two deliveries of customer.subscription.created for the same external
   id, handled concurrently.  Each await of handleSubscriptionCreated is one
   step; between two steps of one invocation the other may run. *)

Invocations == {1, 2}

\* Both deliveries name the known customer and carry a price.
ConcurrentCreatedEvents ==
  { SubscriptionObject(AsString(KnownCustomer), s,
                       [data |-> <<LineItem("price_a")>>], p, cape,
                       NULL, NULL, <<NULL, NULL>>) :
      s \in EventStatuses, p \in Periods, cape \in BOOLEAN }

\* An invocation that has been dispatched and has not yet run.
Dispatched(ev) ==
  [pc |-> "findCustomer", ev |-> ev, customer |-> NoRow, existing |-> NoRow,
   calls |-> <<>>, notes |-> <<>>, result |-> "pending"]

Called(p, name) == Append(inv[p].calls, name)

\* const customer = await repos.customers.findByStripeCustomerId(...)
FindCustomer(p) ==
  /\ inv[p].pc = "findCustomer"
  /\ LET customer == findBy(customers, "stripeCustomerId",
                            RefId(inv[p].ev.customer))
     IN inv' = [inv EXCEPT
                  ![p].customer = customer,
                  ![p].calls = Called(p, "customers.findByStripeCustomerId"),
                  ![p].pc = IF Found(customer) THEN "findExisting" ELSE "done",
                  ![p].result = IF Found(customer) THEN @ ELSE "returned"]
  /\ UNCHANGED <<customers, subscriptions, invoices, payments, now, last, stripe>>

\* const existing = await repos.subscriptions.findByStripeSubscriptionId(...)
FindExisting(p) ==
  /\ inv[p].pc = "findExisting"
  /\ inv' = [inv EXCEPT
               ![p].existing = findBy(subscriptions, "stripeSubscriptionId",
                                      inv[p].ev.id),
               ![p].calls =
                  Called(p, "subscriptions.findByStripeSubscriptionId"),
               ![p].pc = "write"]
  /\ UNCHANGED <<customers, subscriptions, invoices, payments, now, last, stripe>>

\* if (existing) { await repos.subscriptions.updateByStripeSubscriptionId(...);
\* return; }
UpdateExisting(p) ==
  /\ inv[p].pc = "write"
  /\ isDuplicate(inv[p].existing)
  /\ subscriptions' = updateBy(subscriptions, "stripeSubscriptionId",
                               inv[p].ev.id, duplicatePatch(inv[p].ev))
  /\ inv' = [inv EXCEPT
               ![p].calls =
                  Called(p, "subscriptions.updateByStripeSubscriptionId"),
               ![p].pc = "done",
               ![p].result = "returned"]
  /\ UNCHANGED <<customers, invoices, payments, now, last, stripe>>

\* The price check and await repos.subscriptions.create(...): the unique
\* index rejects the insert when a row with the external id is there by now.
CreateRow(p) ==
  /\ inv[p].pc = "write"
  /\ ~isDuplicate(inv[p].existing)
  /\ LET ev == inv[p].ev
         priceId == FirstPriceId(ev.items)
         input == subscriptionInput(ev, inv[p].customer, priceId)
     IN
     IF priceId = UNDEFINED
       THEN /\ inv' = [inv EXCEPT ![p].pc = "done", ![p].result = "returned"]
            /\ UNCHANGED subscriptions
     ELSE IF uniqueViolation(subscriptions, "stripeSubscriptionId", input)
       THEN /\ inv' = [inv EXCEPT
                         ![p].calls = Called(p, "subscriptions.create"),
                         ![p].pc = "done",
                         ![p].result = "threw"]
            /\ UNCHANGED subscriptions
     ELSE /\ subscriptions' = create(subscriptions, input, SubscriptionDefaults)
          /\ inv' = [inv EXCEPT
                       ![p].calls = Called(p, "subscriptions.create"),
                       ![p].pc = "notify"]
  /\ UNCHANGED <<customers, invoices, payments, now, last, stripe>>

\* await analytics.trackBusinessEvent(SUBSCRIPTION_CREATED, ...)
Notify(p) ==
  /\ inv[p].pc = "notify"
  /\ \E sinkFails \in BOOLEAN :
       inv' = [inv EXCEPT
                 ![p].notes = <<trackBusinessEvent("subscription.created",
                                                   sinkFails)>>,
                 ![p].pc = "done",
                 ![p].result = "returned"]
  /\ UNCHANGED <<customers, subscriptions, invoices, payments, now, last, stripe>>

InitConc ==
  /\ customers = <<TheCustomer>>
  /\ subscriptions = <<OtherSubscription>>
  /\ invoices = <<>>
  /\ payments = <<>>
  /\ now = 0
  /\ last = Idle
  /\ inv \in [Invocations -> {Dispatched(ev) : ev \in ConcurrentCreatedEvents}]
  /\ stripe = TheProvider

NextConc ==
  \E p \in Invocations :
    \/ FindCustomer(p)
    \/ FindExisting(p)
    \/ UpdateExisting(p)
    \/ CreateRow(p)
    \/ Notify(p)

SpecConc == InitConc /\ [][NextConc]_vars

----------------------------------------------------------------------------
(* Reconciliation dispatcher: one inbound event, routed by its type to one
   handler *)

\* The four tables, as one value.
Store ==
  [customers |-> customers, subscriptions |-> subscriptions,
   invoices |-> invoices, payments |-> payments]

WebhookEvent(type, object) == [type |-> type, object |-> object]

\* Types of SUPPORTED_WEBHOOK_EVENTS none of the handlers is written for,
\* and a type outside the list.
UnhandledTypes == {"customer.updated", "charge.refunded"}

\* The deliveries the dispatcher is offered: for each handled type the
\* payloads that take the handler down each of its paths.
WebhookEvents ==
  { WebhookEvent("checkout.session.completed",
      [id |-> SessionId, mode |-> m, metadata |-> md, payment_intent |-> "pi_1",
       amount_total |-> 2000, currency |-> "eur"]) :
      m \in {"payment", "subscription"},
      md \in {NullRef, [userId |-> <<"1">>, customerId |-> <<"7">>]} }
  \cup
  { WebhookEvent("customer.created", c) : c \in CustomerCreatedEvents }
  \cup
  { WebhookEvent("customer.subscription.created",
      SubscriptionObject(c, "active", it, <<1000, 2000>>, FALSE, NULL, NULL,
                         <<NULL, NULL>>)) :
      c \in {AsString(KnownCustomer), AsString(UnknownCustomer)},
      it \in {[data |-> <<LineItem("price_a")>>]} }
  \cup
  \* malformed: no line item, a first line item whose price has no id, a
  \* first line item without a price
  { WebhookEvent("customer.subscription.created",
      SubscriptionObject(AsString(KnownCustomer), "active", it,
                         <<1000, 2000>>, FALSE, NULL, NULL, <<NULL, NULL>>)) :
      it \in {[data |-> <<>>], [data |-> <<LineItem(UNDEFINED)>>],
              [data |-> <<[price |-> Absent]>>]} }
  \cup
  { WebhookEvent("customer.subscription.updated",
      SubscriptionObject(AsString(KnownCustomer), "past_due", it,
                         <<2000, 3000>>, TRUE, NULL, NULL, <<NULL, NULL>>)) :
      it \in {Absent, [data |-> <<LineItem("price_b")>>]} }
  \cup
  { WebhookEvent("customer.subscription.deleted",
      SubscriptionObject(AsString(KnownCustomer), "canceled", Absent,
                         <<1000, 2000>>, FALSE, NULL, NULL, <<NULL, NULL>>)) }
  \cup
  { WebhookEvent(t,
      InvoiceObject(AsString(KnownCustomer), AsString("sub_0"), 900, 500,
                    <<"usd", 100, 200>>, "https://invoice/in_1", UNDEFINED)) :
      t \in {"invoice.paid", "invoice.payment_failed"} }
  \cup
  { WebhookEvent(t, i) :
      t \in {"invoice.paid", "invoice.payment_failed"},
      i \in UnattributedInvoices }
  \cup
  { WebhookEvent(t, pi) :
      t \in {"payment_intent.succeeded", "payment_intent.payment_failed"},
      pi \in PaymentIntentEvents }
  \cup
  { WebhookEvent(t, [id |-> "evt_object"]) : t \in UnhandledTypes }

\* What the dispatcher reports of a handler invocation: the handler's name
\* and the store with the handler's table replaced.
Routed(handler, table, o) ==
  [handler |-> handler, store |-> [Store EXCEPT ![table] = o.table],
   result |-> o.result, calls |-> o.calls, notes |-> o.notes,
   logs |-> o.logs]

\* No handler is registered for the type: the event is acknowledged.
Acknowledged ==
  [handler |-> "none", store |-> Store, result |-> "returned",
   calls |-> <<>>, notes |-> <<>>, logs |-> <<>>]

\* Mutant of processWebhookEvent: payment-failed invoices are routed to the
\* invoice-paid handler.
processWebhookEventMisrouted(event, fail, t1, t2) ==
  IF event.type \in {"invoice.paid", "invoice.payment_failed"}
    THEN Routed("handleInvoicePaid", "invoices",
                handleInvoicePaid(event.object, fail))
    ELSE Acknowledged

processWebhookEvent(event, fail, t1, t2) ==
  CASE event.type = "checkout.session.completed" ->
         Routed("handleCheckoutSessionCompleted", "payments",
                handleCheckoutSessionCompleted(event.object, fail))
    [] event.type = "customer.created" ->
         Routed("handleCustomerCreated", "customers",
                handleCustomerCreated(event.object, fail))
    [] event.type = "customer.subscription.created" ->
         Routed("handleSubscriptionCreated", "subscriptions",
                handleSubscriptionCreated(event.object, fail))
    [] event.type = "customer.subscription.updated" ->
         Routed("handleSubscriptionUpdated", "subscriptions",
                handleSubscriptionUpdated(event.object, fail))
    [] event.type = "customer.subscription.deleted" ->
         Routed("handleSubscriptionDeleted", "subscriptions",
                handleSubscriptionDeleted(event.object, fail, t1, t2))
    [] event.type = "invoice.paid" ->
         Routed("handleInvoicePaid", "invoices",
                handleInvoicePaid(event.object, fail))
    [] event.type = "invoice.payment_failed" ->
         Routed("handleInvoicePaymentFailed", "invoices",
                handleInvoicePaymentFailed(event.object, fail))
    [] event.type = "payment_intent.succeeded" ->
         Routed("handlePaymentIntentSucceeded", "payments",
                handlePaymentIntentSucceeded(event.object, fail))
    [] event.type = "payment_intent.payment_failed" ->
         Routed("handlePaymentIntentFailed", "payments",
                handlePaymentIntentFailed(event.object, fail))
    [] OTHER -> Acknowledged

\* The failing call `fail` names is one the invocation reached: the last
\* call it issued, or the analytics write of the business event it recorded.
\* Any other value of `fail` repeats the invocation without a failure.
Reached(fail, r) ==
  \/ fail = 0
  \/ fail = Len(r.calls)
  \/ fail = Len(r.calls) + 1 /\ r.notes # <<>>

\* Only the deleted handler reads the clock.
ReadsClock(event) == event.type = "customer.subscription.deleted"

\* The observation of one dispatch: the event, the failing call, both clock
\* readings, the store before, and what the handler did.
Observed(event, fail, t1, t2, d) ==
  [op |-> event.type, ev |-> event.object, fail |-> fail,
   clock |-> <<t1, t2>>, pre |-> Store, handler |-> d.handler,
   result |-> d.result, calls |-> d.calls, notes |-> d.notes,
   logs |-> d.logs]

ProcessWebhookEvent ==
  /\ last = Idle
  /\ \E event \in WebhookEvents, fail \in 0..5,
        t1 \in now..MaxTime, t2 \in now..MaxTime :
       /\ t1 <= t2
       /\ ~ReadsClock(event) => t1 = now /\ t2 = now
       /\ event.type = "checkout.session.completed"
            => Len(payments) < MaxPayments
       /\ LET d == processWebhookEvent(event, fail, t1, t2) IN
          /\ Reached(fail, d)
          /\ customers' = d.store.customers
          /\ subscriptions' = d.store.subscriptions
          /\ invoices' = d.store.invoices
          /\ payments' = d.store.payments
          /\ now' = t2
          /\ last' = Observed(event, fail, t1, t2, d)
  /\ UNCHANGED <<inv, stripe>>

NextHook ==
  \/ ProcessWebhookEvent
  \/ clearAllMocks

SpecHook == Init /\ [][NextHook]_vars

----------------------------------------------------------------------------
(* POST /api/stripe/checkout: one request, from authentication to response *)

\* Provider customers there may be before the endpoints stop being offered
\* requests that create one.
MaxProviderCustomers == 2

\* What auth() resolves to: no session, the user who owns the known
\* customer, a user without a customer, and a session of the first user
\* that carries no email or an empty one.
AuthSessions ==
  { NullRef,
    [user |-> [id |-> <<"1">>, email |-> "u1@example.com"]],
    [user |-> [id |-> <<"2">>, email |-> "u2@example.com"]],
    [user |-> [id |-> <<"1">>]],
    [user |-> [id |-> <<"1">>, email |-> ""]] }

\* Mutant of authenticated: a session with a user passes, with or without
\* an email.
authenticatedWithoutEmail(session) == "user" \in DOMAIN session

\* if (!session?.user?.email)
authenticated(session) ==
  /\ "user" \in DOMAIN session
  /\ "email" \in DOMAIN session.user
  /\ session.user.email # ""

\* Number(session.user.id) of an id written in decimal digits
NumberOf(chars) == ParseDigits(chars, 0)

\* The decimal digits of n, most significant first, after `acc`.
RECURSIVE DigitsOf(_, _)
DigitsOf(n, acc) ==
  IF n < 10 THEN <<Digits[n + 1]>> \o acc
  ELSE DigitsOf(n \div 10, <<Digits[(n % 10) + 1]>> \o acc)

\* String(n) of a non-negative integer, as its characters
String(n) == DigitsOf(n, <<>>)

\* A request body that is not JSON.
InvalidJson == [invalid |-> TRUE]

\* Request bodies: not JSON, without priceId, with priceId, and with
\* priceId and metadata of the caller's choosing (a key of its own, or one
\* of the keys the route writes).
CheckoutBodies ==
  { InvalidJson,
    [priceId |-> UNDEFINED, metadata |-> NullRef],
    [priceId |-> "price_once", metadata |-> NullRef],
    [priceId |-> "price_gift", metadata |-> NullRef],
    [priceId |-> "price_once", metadata |-> [source |-> "pricing"]],
    [priceId |-> "price_once", metadata |-> [customerId |-> <<"9">>]] }

\* The request ended in a response.
Responded(store, provider, calls, notes, session) ==
  [store |-> store, stripe |-> provider, result |-> "returned",
   error |-> "none", calls |-> calls, notes |-> notes, session |-> session]

\* The request ended in an exception for the error layer.
Failed(error, store, provider, calls) ==
  [store |-> store, stripe |-> provider, result |-> "threw",
   error |-> error, calls |-> calls, notes |-> <<>>, session |-> NullRef]

\* The id the provider gives its next customer.
nextStripeCustomerId(provider) ==
  "cus_" \o ToString(Len(provider.customers) + 1)

\* { userId: String(userId), customerId: String(customer.id), ...metadata }
sessionMetadata(userId, customer, metadata) ==
  (IF metadata = NullRef THEN <<>> ELSE metadata)
  @@ [userId |-> String(userId), customerId |-> String(customer.id)]

\* stripe.checkout.sessions.create and what follows it.  `k` calls have
\* been awaited before; fail = k + 1: the provider rejects the session;
\* fail = k + 2: the analytics sink fails.
createCheckoutSession(customer, mode, metadata, store, provider, calls, fail, k) ==
  LET cS == Append(calls, "stripe.checkout.sessions.create") IN
  IF fail = k + 1 THEN Failed("StripeError", store, provider, cS)
  ELSE Responded(store, provider, cS,
                 <<trackBusinessEvent("checkout.started", fail = k + 2)>>,
                 [customer |-> customer.stripeCustomerId, mode |-> mode,
                  metadata |-> metadata])

\* Mutant of customerMissing: a customer is created for every request.
customerMissingAlways(customer) == TRUE

\* if (!customer)
customerMissing(customer) == ~Found(customer)

\* fail = 1: customers.findByUserId rejects.  For a user without a customer,
\* fail = 2: stripe.customers.create rejects; fail = 3: customers.create
\* rejects; then the session.  For a user with one the session comes second.
postCheckout(session, body, fail) ==
  IF ~authenticated(session)
    THEN Failed("AuthenticationError", Store, stripe, <<>>)
  ELSE IF body = InvalidJson \/ body.priceId = UNDEFINED
    THEN Failed("ValidationError", Store, stripe, <<>>)
  ELSE
    LET userId == NumberOf(session.user.id)
        existing == findBy(customers, "userId", userId)
        c1 == <<"customers.findByUserId">>
        c2 == Append(c1, "stripe.customers.create")
        c3 == Append(c2, "customers.create")
        stripeCustomer == [id |-> nextStripeCustomerId(stripe),
                           userId |-> userId]
        provider == [stripe EXCEPT !.customers = Append(@, stripeCustomer)]
        input == [userId |-> userId, stripeCustomerId |-> stripeCustomer.id]
        saved == create(customers, input, <<>>)
        customer == saved[Len(saved)]
    IN
    IF fail = 1 THEN Failed("Error", Store, stripe, c1)
    ELSE IF ~customerMissing(existing)
      THEN createCheckoutSession(existing, "payment",
             sessionMetadata(userId, existing, body.metadata),
             Store, stripe, c1, fail, 1)
    ELSE IF fail = 2 THEN Failed("StripeError", Store, stripe, c2)
    ELSE IF fail = 3 \/ uniqueViolation(customers, "stripeCustomerId", input)
      THEN Failed("StripeError", Store, provider, c3)
    ELSE createCheckoutSession(customer, "payment",
           sessionMetadata(userId, customer, body.metadata),
           [Store EXCEPT !.customers = saved], provider, c3, fail, 3)

\* The observation of one request.
Requested(op, session, body, fail, r) ==
  [op |-> op, ev |-> [session |-> session, body |-> body], fail |-> fail,
   clock |-> <<now, now>>, pre |-> Store, preStripe |-> stripe,
   handler |-> "POST", result |-> r.result, error |-> r.error,
   calls |-> r.calls, notes |-> r.notes, session |-> r.session, logs |-> <<>>]

\* The user has no customer yet, so the request may create one.
MayCreateCustomer(session) ==
  /\ authenticated(session)
  /\ ~Found(findBy(customers, "userId", NumberOf(session.user.id)))

PostCheckout ==
  /\ last = Idle
  /\ \E session \in AuthSessions, body \in CheckoutBodies, fail \in 0..5 :
       /\ MayCreateCustomer(session)
            => Len(stripe.customers) < MaxProviderCustomers
       /\ LET r == postCheckout(session, body, fail) IN
          /\ Reached(fail, r)
          /\ customers' = r.store.customers
          /\ stripe' = r.stripe
          /\ last' = Requested("POST /api/stripe/checkout", session, body,
                               fail, r)
  /\ UNCHANGED <<subscriptions, invoices, payments, now, inv>>

NextApi ==
  \/ PostCheckout
  \/ clearAllMocks

SpecApi == Init /\ [][NextApi]_vars

----------------------------------------------------------------------------
(* POST /api/stripe/checkout/subscription, POST /api/stripe/subscription/cancel
   and POST /api/stripe/subscription/resume: one request each *)

\* findActiveByCustomerId: the customer's first subscription in an
\* active-like status, or null.
findActiveByCustomerId(table, customerId) ==
  LET at == {i \in 1..Len(table) :
               /\ table[i].customerId = customerId
               /\ table[i].status \in {"active", "trialing"}}
  IN IF at # {} THEN table[CHOOSE i \in at : \A j \in at : i <= j]
     ELSE NoRow

\* findByCustomerId: the positions of the customer's subscriptions, in
\* insertion order.
findByCustomerId(table, customerId) ==
  {i \in 1..Len(table) : table[i].customerId = customerId}

\* A configured plan price with a trial, and a price of no plan.
SubscriptionCheckoutBodies ==
  { InvalidJson,
    [priceId |-> UNDEFINED, trialDays |-> NULL, metadata |-> NullRef],
    [priceId |-> "price_starter_monthly", trialDays |-> NULL,
     metadata |-> NullRef],
    [priceId |-> "price_starter_monthly", trialDays |-> 0,
     metadata |-> NullRef],
    [priceId |-> "price_unlisted", trialDays |-> 7,
     metadata |-> [customerId |-> <<"9">>]],
    [priceId |-> "price_unlisted", trialDays |-> NULL,
     metadata |-> NullRef] }

\* getPlanByPriceId(priceId) and the trial days of the plan's price
planTrialDays(priceId) ==
  IF priceId = "price_starter_monthly" THEN 14 ELSE NULL

\* trialDays of the body, else the plan's
finalTrialDays(body) ==
  IF body.trialDays = NULL THEN planTrialDays(body.priceId)
  ELSE body.trialDays

\* if (finalTrialDays && finalTrialDays > 0)
asksForTrial(body) == finalTrialDays(body) # NULL /\ finalTrialDays(body) > 0

\* Mutant of subscriptionSession: the trial is given whenever asked for.
subscriptionSessionAlwaysTrial(r, body, customer, store) ==
  IF r.result = "threw" THEN r
  ELSE [r EXCEPT
          !.session =
             [customer |-> @.customer, mode |-> @.mode,
              metadata |-> @.metadata @@ [priceId |-> body.priceId],
              trial_period_days |->
                IF asksForTrial(body) THEN finalTrialDays(body) ELSE NULL]]

\* The session request of a subscription checkout: the trial when asked for
\* and the customer never had a subscription, and the price id in the
\* metadata unless the body's metadata carries one.
subscriptionSession(r, body, customer, store) ==
  IF r.result = "threw" THEN r
  ELSE [r EXCEPT
          !.session =
             [customer |-> @.customer, mode |-> @.mode,
              metadata |-> @.metadata @@ [priceId |-> body.priceId],
              trial_period_days |->
                IF /\ asksForTrial(body)
                   /\ findByCustomerId(store.subscriptions, customer.id) = {}
                  THEN finalTrialDays(body) ELSE NULL]]

\* The part after the customer is known.  `k` calls have been awaited; with
\* a trial asked for, the customer's subscriptions are read first.
subscribe(customer, userId, body, store, provider, calls, fail, k) ==
  LET cP == Append(calls, "subscriptions.findByCustomerId")
      n == IF asksForTrial(body) THEN 1 ELSE 0
  IN
  IF n = 1 /\ fail = k + 1 THEN Failed("Error", store, provider, cP)
  ELSE subscriptionSession(
         createCheckoutSession(customer, "subscription",
           sessionMetadata(userId, customer, body.metadata), store, provider,
           IF n = 1 THEN cP ELSE calls, fail, k + n),
         body, customer, store)

\* Mutant of postCheckoutSubscription: the current subscription is not
\* looked at.
postCheckoutSubscriptionUnchecked(session, body, fail) ==
  IF ~authenticated(session)
    THEN Failed("AuthenticationError", Store, stripe, <<>>)
  ELSE IF body = InvalidJson \/ body.priceId = UNDEFINED
    THEN Failed("ValidationError", Store, stripe, <<>>)
  ELSE
    LET userId == NumberOf(session.user.id)
        existing == findBy(customers, "userId", userId)
        c1 == <<"customers.findByUserId">>
        cA == Append(c1, "subscriptions.findActiveByCustomerId")
        c2 == Append(c1, "stripe.customers.create")
        c3 == Append(c2, "customers.create")
        stripeCustomer == [id |-> nextStripeCustomerId(stripe),
                           userId |-> userId]
        provider == [stripe EXCEPT !.customers = Append(@, stripeCustomer)]
        input == [userId |-> userId, stripeCustomerId |-> stripeCustomer.id]
        saved == create(customers, input, <<>>)
        customer == saved[Len(saved)]
    IN
    IF fail = 1 THEN Failed("Error", Store, stripe, c1)
    ELSE IF ~customerMissing(existing)
      THEN IF fail = 2 THEN Failed("Error", Store, stripe, cA)
           ELSE subscribe(existing, userId, body, Store, stripe, cA, fail, 2)
    ELSE IF fail = 2 THEN Failed("StripeError", Store, stripe, c2)
    ELSE IF fail = 3 \/ uniqueViolation(customers, "stripeCustomerId", input)
      THEN Failed("StripeError", Store, provider, c3)
    ELSE subscribe(customer, userId, body,
                   [Store EXCEPT !.customers = saved], provider, c3, fail, 3)

postCheckoutSubscription(session, body, fail) ==
  IF ~authenticated(session)
    THEN Failed("AuthenticationError", Store, stripe, <<>>)
  ELSE IF body = InvalidJson \/ body.priceId = UNDEFINED
    THEN Failed("ValidationError", Store, stripe, <<>>)
  ELSE
    LET userId == NumberOf(session.user.id)
        existing == findBy(customers, "userId", userId)
        active == findActiveByCustomerId(subscriptions, existing.id)
        c1 == <<"customers.findByUserId">>
        cA == Append(c1, "subscriptions.findActiveByCustomerId")
        c2 == Append(c1, "stripe.customers.create")
        c3 == Append(c2, "customers.create")
        stripeCustomer == [id |-> nextStripeCustomerId(stripe),
                           userId |-> userId]
        provider == [stripe EXCEPT !.customers = Append(@, stripeCustomer)]
        input == [userId |-> userId, stripeCustomerId |-> stripeCustomer.id]
        saved == create(customers, input, <<>>)
        customer == saved[Len(saved)]
    IN
    IF fail = 1 THEN Failed("Error", Store, stripe, c1)
    ELSE IF ~customerMissing(existing)
      THEN IF fail = 2 THEN Failed("Error", Store, stripe, cA)
           ELSE IF Found(active)
             THEN Failed("ValidationError", Store, stripe, cA)
           ELSE subscribe(existing, userId, body, Store, stripe, cA, fail, 2)
    ELSE IF fail = 2 THEN Failed("StripeError", Store, stripe, c2)
    ELSE IF fail = 3 \/ uniqueViolation(customers, "stripeCustomerId", input)
      THEN Failed("StripeError", Store, provider, c3)
    ELSE subscribe(customer, userId, body,
                   [Store EXCEPT !.customers = saved], provider, c3, fail, 3)

PostCheckoutSubscription ==
  /\ last = Idle
  /\ \E session \in AuthSessions, body \in SubscriptionCheckoutBodies,
        fail \in 0..6 :
       /\ MayCreateCustomer(session)
            => Len(stripe.customers) < MaxProviderCustomers
       /\ LET r == postCheckoutSubscription(session, body, fail) IN
          /\ Reached(fail, r)
          /\ customers' = r.store.customers
          /\ stripe' = r.stripe
          /\ last' = Requested("POST /api/stripe/checkout/subscription",
                               session, body, fail, r)
  /\ UNCHANGED <<subscriptions, invoices, payments, now, inv>>

\* A request without a body, or with the body {}.
EmptyBody == [empty |-> TRUE]

CancelBodies ==
  {InvalidJson, EmptyBody, [immediately |-> FALSE], [immediately |-> TRUE]}

\* const { immediately = false } = body
immediately(body) ==
  IF "immediately" \in DOMAIN body THEN body.immediately ELSE FALSE

\* The fields an immediate cancel writes; the clock is read for each stamp.
cancelNowPatch(t1, t2) ==
  [status |-> "canceled", canceledAt |-> t1, endedAt |-> t2]

\* Mutant of cancelAtPeriodEndPatch: the subscription is ended at once.
cancelAtPeriodEndPatchEndsNow(t1) ==
  [status |-> "canceled", cancelAtPeriodEnd |-> TRUE, canceledAt |-> t1]

\* The fields a cancel at period end writes.
cancelAtPeriodEndPatch(t1) == [cancelAtPeriodEnd |-> TRUE, canceledAt |-> t1]

\* Mutant of postCancel: the local write is made before the provider call,
\* so a failing provider call leaves the row changed.
postCancelWritesFirst(session, body, fail, t1, t2) ==
  IF ~authenticated(session)
    THEN Failed("AuthenticationError", Store, stripe, <<>>)
  ELSE IF body = InvalidJson
    THEN Failed("ValidationError", Store, stripe, <<>>)
  ELSE
    LET userId == NumberOf(session.user.id)
        customer == findBy(customers, "userId", userId)
        subscription == findActiveByCustomerId(subscriptions, customer.id)
        c1 == <<"customers.findByUserId">>
        c2 == Append(c1, "subscriptions.findActiveByCustomerId")
        c3 == Append(c2, "subscriptions.updateByStripeSubscriptionId")
        c4 == Append(c3, IF immediately(body)
                           THEN "stripe.subscriptions.cancel"
                           ELSE "stripe.subscriptions.update")
        patch == IF immediately(body) THEN cancelNowPatch(t1, t2)
                 ELSE cancelAtPeriodEndPatch(t1)
    IN
    IF fail = 1 THEN Failed("Error", Store, stripe, c1)
    ELSE IF ~Found(customer)
      THEN Failed("StripeCustomerNotFoundError", Store, stripe, c1)
    ELSE IF fail = 2 THEN Failed("Error", Store, stripe, c2)
    ELSE IF ~Found(subscription)
      THEN Failed("StripeNoActiveSubscriptionError", Store, stripe, c2)
    ELSE IF fail = 3 THEN Failed("StripeError", Store, stripe, c3)
    ELSE IF fail = 4
      THEN Failed("StripeError",
                  [Store EXCEPT
                     !.subscriptions =
                        updateBy(subscriptions, "stripeSubscriptionId",
                                 subscription.stripeSubscriptionId, patch)],
                  stripe, c4)
    ELSE Responded(
           [Store EXCEPT
              !.subscriptions =
                 updateBy(subscriptions, "stripeSubscriptionId",
                          subscription.stripeSubscriptionId, patch)],
           stripe, c4,
           <<trackBusinessEvent("subscription.canceled", fail = 5)>>,
           NullRef)

\* fail = 1: customers.findByUserId rejects; 2: findActiveByCustomerId; 3:
\* the provider call; 4: the store update; 5: the analytics sink fails.
postCancel(session, body, fail, t1, t2) ==
  IF ~authenticated(session)
    THEN Failed("AuthenticationError", Store, stripe, <<>>)
  ELSE IF body = InvalidJson
    THEN Failed("ValidationError", Store, stripe, <<>>)
  ELSE
    LET userId == NumberOf(session.user.id)
        customer == findBy(customers, "userId", userId)
        subscription == findActiveByCustomerId(subscriptions, customer.id)
        c1 == <<"customers.findByUserId">>
        c2 == Append(c1, "subscriptions.findActiveByCustomerId")
        c3 == Append(c2, IF immediately(body)
                           THEN "stripe.subscriptions.cancel"
                           ELSE "stripe.subscriptions.update")
        c4 == Append(c3, "subscriptions.updateByStripeSubscriptionId")
        patch == IF immediately(body) THEN cancelNowPatch(t1, t2)
                 ELSE cancelAtPeriodEndPatch(t1)
    IN
    IF fail = 1 THEN Failed("Error", Store, stripe, c1)
    ELSE IF ~Found(customer)
      THEN Failed("StripeCustomerNotFoundError", Store, stripe, c1)
    ELSE IF fail = 2 THEN Failed("Error", Store, stripe, c2)
    ELSE IF ~Found(subscription)
      THEN Failed("StripeNoActiveSubscriptionError", Store, stripe, c2)
    ELSE IF fail = 3 THEN Failed("StripeError", Store, stripe, c3)
    ELSE IF fail = 4 THEN Failed("StripeError", Store, stripe, c4)
    ELSE Responded(
           [Store EXCEPT
              !.subscriptions =
                 updateBy(subscriptions, "stripeSubscriptionId",
                          subscription.stripeSubscriptionId, patch)],
           stripe, c4,
           <<trackBusinessEvent("subscription.canceled", fail = 5)>>,
           NullRef)

\* The clock is read only by a request that reaches its store update.
PostCancel ==
  /\ last = Idle
  /\ \E session \in AuthSessions, body \in CancelBodies, fail \in 0..5,
        t1 \in now..MaxTime, t2 \in now..MaxTime :
       /\ t1 <= t2
       /\ LET r == postCancel(session, body, fail, t1, t2) IN
          /\ Reached(fail, r)
          /\ r.result = "threw" => t1 = now /\ t2 = now
          /\ subscriptions' = r.store.subscriptions
          /\ now' = t2
          /\ last' = [Requested("POST /api/stripe/subscription/cancel",
                                session, body, fail, r)
                        EXCEPT !.clock = <<t1, t2>>]
  /\ UNCHANGED <<customers, invoices, payments, inv, stripe>>

\* Mutant of findResumable: the status is not looked at.
findResumableAnyStatus(table, customerId) ==
  LET at == {i \in findByCustomerId(table, customerId) :
               table[i].cancelAtPeriodEnd}
  IN IF at # {} THEN table[CHOOSE i \in at : \A j \in at : i <= j]
     ELSE NoRow

\* subscriptions.find(s => s.cancelAtPeriodEnd && (active || trialing))
findResumable(table, customerId) ==
  LET at == {i \in findByCustomerId(table, customerId) :
               /\ table[i].cancelAtPeriodEnd
               /\ table[i].status \in {"active", "trialing"}}
  IN IF at # {} THEN table[CHOOSE i \in at : \A j \in at : i <= j]
     ELSE NoRow

\* Mutant of resumePatch: the cancellation stamp is left in place.
resumePatchKeepsStamp == [cancelAtPeriodEnd |-> FALSE]

\* The fields a resume writes: canceledAt is passed as null.
resumePatch == [cancelAtPeriodEnd |-> FALSE, canceledAt |-> NULL]

\* fail = 1: customers.findByUserId rejects; 2: findByCustomerId; 3: the
\* provider call; 4: the store update; 5: the analytics sink fails.
postResume(session, fail) ==
  IF ~authenticated(session)
    THEN Failed("AuthenticationError", Store, stripe, <<>>)
  ELSE
    LET userId == NumberOf(session.user.id)
        customer == findBy(customers, "userId", userId)
        subscription == findResumable(subscriptions, customer.id)
        c1 == <<"customers.findByUserId">>
        c2 == Append(c1, "subscriptions.findByCustomerId")
        c3 == Append(c2, "stripe.subscriptions.update")
        c4 == Append(c3, "subscriptions.updateByStripeSubscriptionId")
    IN
    IF fail = 1 THEN Failed("Error", Store, stripe, c1)
    ELSE IF ~Found(customer)
      THEN Failed("StripeCustomerNotFoundError", Store, stripe, c1)
    ELSE IF fail = 2 THEN Failed("Error", Store, stripe, c2)
    ELSE IF ~Found(subscription)
      THEN Failed("ValidationError", Store, stripe, c2)
    ELSE IF fail = 3 THEN Failed("StripeError", Store, stripe, c3)
    ELSE IF fail = 4 THEN Failed("StripeError", Store, stripe, c4)
    ELSE Responded(
           [Store EXCEPT
              !.subscriptions =
                 updateBy(subscriptions, "stripeSubscriptionId",
                          subscription.stripeSubscriptionId, resumePatch)],
           stripe, c4,
           <<trackBusinessEvent("subscription.resumed", fail = 5)>>,
           NullRef)

PostResume ==
  /\ last = Idle
  /\ \E session \in AuthSessions, fail \in 0..5 :
       LET r == postResume(session, fail) IN
       /\ Reached(fail, r)
       /\ subscriptions' = r.store.subscriptions
       /\ last' = Requested("POST /api/stripe/subscription/resume", session,
                            NullRef, fail, r)
  /\ UNCHANGED <<customers, invoices, payments, now, inv, stripe>>

\* Portal request bodies: not JSON, empty, and with a return URL.
PortalBodies == {InvalidJson, EmptyBody, [returnUrl |-> "https://app/billing"]}

\* POST /api/stripe/portal.  fail = 1: customers.findByUserId rejects;
\* 2: the provider rejects the portal session.
postPortal(session, body, fail) ==
  IF ~authenticated(session)
    THEN Failed("AuthenticationError", Store, stripe, <<>>)
  ELSE IF body = InvalidJson
    THEN Failed("ValidationError", Store, stripe, <<>>)
  ELSE
    LET userId == NumberOf(session.user.id)
        customer == findBy(customers, "userId", userId)
        c1 == <<"customers.findByUserId">>
        c2 == Append(c1, "stripe.billingPortal.sessions.create")
    IN
    IF fail = 1 THEN Failed("Error", Store, stripe, c1)
    ELSE IF ~Found(customer)
      THEN Failed("StripeCustomerNotFoundError", Store, stripe, c1)
    ELSE IF fail = 2 THEN Failed("StripeError", Store, stripe, c2)
    ELSE Responded(Store, stripe, c2, <<>>, NullRef)

\* GET /api/stripe/subscription.  fail = 1: customers.findByUserId rejects;
\* 2: findActiveByCustomerId; 3: findByCustomerId, read when the customer
\* has no current subscription.
getSubscription(session, fail) ==
  IF ~authenticated(session)
    THEN Failed("AuthenticationError", Store, stripe, <<>>)
  ELSE
    LET userId == NumberOf(session.user.id)
        customer == findBy(customers, "userId", userId)
        subscription == findActiveByCustomerId(subscriptions, customer.id)
        c1 == <<"customers.findByUserId">>
        c2 == Append(c1, "subscriptions.findActiveByCustomerId")
        c3 == Append(c2, "subscriptions.findByCustomerId")
    IN
    IF fail = 1 THEN Failed("Error", Store, stripe, c1)
    ELSE IF ~Found(customer) THEN Responded(Store, stripe, c1, <<>>, NullRef)
    ELSE IF fail = 2 THEN Failed("Error", Store, stripe, c2)
    ELSE IF Found(subscription)
      THEN Responded(Store, stripe, c2, <<>>, NullRef)
    ELSE IF fail = 3 THEN Failed("Error", Store, stripe, c3)
    ELSE Responded(Store, stripe, c3, <<>>, NullRef)

\* GET /api/stripe/customer.  fail = 1: customers.findByUserId rejects;
\* 2: findActiveByCustomerId; 3: payments.findByCustomerId; 4:
\* invoices.findByCustomerId.
getCustomer(session, fail) ==
  IF ~authenticated(session)
    THEN Failed("AuthenticationError", Store, stripe, <<>>)
  ELSE
    LET userId == NumberOf(session.user.id)
        customer == findBy(customers, "userId", userId)
        c1 == <<"customers.findByUserId">>
        c2 == Append(c1, "subscriptions.findActiveByCustomerId")
        c3 == Append(c2, "payments.findByCustomerId")
        c4 == Append(c3, "invoices.findByCustomerId")
    IN
    IF fail = 1 THEN Failed("Error", Store, stripe, c1)
    ELSE IF ~Found(customer) THEN Responded(Store, stripe, c1, <<>>, NullRef)
    ELSE IF fail = 2 THEN Failed("Error", Store, stripe, c2)
    ELSE IF fail = 3 THEN Failed("Error", Store, stripe, c3)
    ELSE IF fail = 4 THEN Failed("Error", Store, stripe, c4)
    ELSE Responded(Store, stripe, c4, <<>>, NullRef)

PostPortal ==
  /\ last = Idle
  /\ \E session \in AuthSessions, body \in PortalBodies, fail \in 0..2 :
       LET r == postPortal(session, body, fail) IN
       /\ Reached(fail, r)
       /\ last' = Requested("POST /api/stripe/portal", session, body, fail, r)
  /\ UNCHANGED <<customers, subscriptions, invoices, payments, now, inv,
                 stripe>>

GetSubscription ==
  /\ last = Idle
  /\ \E session \in AuthSessions, fail \in 0..3 :
       LET r == getSubscription(session, fail) IN
       /\ Reached(fail, r)
       /\ last' = Requested("GET /api/stripe/subscription", session, NullRef,
                            fail, r)
  /\ UNCHANGED <<customers, subscriptions, invoices, payments, now, inv,
                 stripe>>

GetCustomer ==
  /\ last = Idle
  /\ \E session \in AuthSessions, fail \in 0..4 :
       LET r == getCustomer(session, fail) IN
       /\ Reached(fail, r)
       /\ last' = Requested("GET /api/stripe/customer", session, NullRef,
                            fail, r)
  /\ UNCHANGED <<customers, subscriptions, invoices, payments, now, inv,
                 stripe>>

----------------------------------------------------------------------------
(* Specification of the whole billing layer: webhook deliveries and endpoint
   requests, one at a time, in any order *)

NextAll ==
  \/ ProcessWebhookEvent
  \/ PostCheckout
  \/ PostCheckoutSubscription
  \/ PostCancel
  \/ PostResume
  \/ clearAllMocks

SpecAll == Init /\ [][NextAll]_vars

----------------------------------------------------------------------------
(* Specification of the subscription endpoints: requests to
   checkout/subscription, subscription/cancel and subscription/resume, one
   at a time, on the stores the subscription handlers leave *)

\* The known customer's subscription sub_1 as customer.subscription.created
\* .updated and .deleted leave it: current (active or trialing), past due or
\* ended, set to cancel at the period end or not.
CurrentSubscription(status, cape) ==
  [id |-> 2, customerId |-> 7, stripeSubscriptionId |-> SubId,
   stripePriceId |-> "price_a", status |-> status,
   currentPeriodStart |-> 2000, currentPeriodEnd |-> 3000,
   cancelAtPeriodEnd |-> cape,
   canceledAt |-> IF cape \/ status = "canceled" THEN 0 ELSE NULL,
   endedAt |-> IF status = "canceled" THEN 0 ELSE NULL,
   trialStart |-> NULL, trialEnd |-> NULL]

\* No subscription yet, an ended one, or an ended one and sub_1.
BillingSubscriptions ==
  { <<>>, <<OtherSubscription>> }
  \cup { <<OtherSubscription, CurrentSubscription(st, cape)>> :
           st \in {"active", "trialing", "past_due", "canceled"},
           cape \in BOOLEAN }

InitBilling ==
  /\ customers = <<TheCustomer>>
  /\ subscriptions \in BillingSubscriptions
  /\ invoices = <<>>
  /\ payments = <<>>
  /\ now = 0
  /\ last = Idle
  /\ inv = <<>>
  /\ stripe = TheProvider

NextBilling ==
  \/ PostCheckoutSubscription
  \/ PostCancel
  \/ PostResume
  \/ clearAllMocks

SpecBilling == InitBilling /\ [][NextBilling]_vars

----------------------------------------------------------------------------
(* Specification of the billing endpoints: requests to all seven of them,
   one at a time, on the stores of SpecBilling *)

NextEndpoints ==
  \/ PostCheckout
  \/ PostCheckoutSubscription
  \/ PostPortal
  \/ GetSubscription
  \/ PostCancel
  \/ PostResume
  \/ GetCustomer
  \/ clearAllMocks

SpecEndpoints == InitBilling /\ [][NextEndpoints]_vars

----------------------------------------------------------------------------
(* Two checkout requests of one user, handled concurrently.  Each await of
   the get-or-create-customer part of POST /api/stripe/checkout and of
   POST /api/stripe/checkout/subscription is one step. *)

\* The user of both requests: authenticated, without a Customer so far.
ConcurrentUser == 2

\* One-time checkout or subscription checkout (with trialDays: 0, so that
\* the earlier subscriptions are not read).
CheckoutKinds == {"payment", "subscription"}

\* A request that passed authentication and validation.
Arrived(kind) ==
  [pc |-> "findByUserId", kind |-> kind, customer |-> NoRow,
   stripeCustomerId |-> UNDEFINED, calls |-> <<>>, result |-> "pending"]

\* await repos.customers.findByUserId(userId)
FindByUserId(p) ==
  /\ inv[p].pc = "findByUserId"
  /\ LET customer == findBy(customers, "userId", ConcurrentUser) IN
     inv' = [inv EXCEPT
               ![p].customer = customer,
               ![p].calls = Called(p, "customers.findByUserId"),
               ![p].pc = IF customerMissing(customer)
                           THEN "createStripeCustomer"
                         ELSE IF inv[p].kind = "subscription"
                           THEN "findActive"
                         ELSE "createSession"]
  /\ UNCHANGED <<customers, subscriptions, invoices, payments, now, last,
                 stripe>>

\* Subscription checkout of a user with a customer:
\* await repos.subscriptions.findActiveByCustomerId(existingCustomer.id)
FindActive(p) ==
  /\ inv[p].pc = "findActive"
  /\ LET active == findActiveByCustomerId(subscriptions, inv[p].customer.id)
     IN inv' = [inv EXCEPT
                  ![p].calls =
                     Called(p, "subscriptions.findActiveByCustomerId"),
                  ![p].pc = IF Found(active) THEN "done" ELSE "createSession",
                  ![p].result = IF Found(active) THEN "threw" ELSE @]
  /\ UNCHANGED <<customers, subscriptions, invoices, payments, now, last,
                 stripe>>

\* await stripe.customers.create(...)
CreateStripeCustomer(p) ==
  /\ inv[p].pc = "createStripeCustomer"
  /\ stripe' = [stripe EXCEPT
                  !.customers =
                     Append(@, [id |-> nextStripeCustomerId(stripe),
                                userId |-> ConcurrentUser])]
  /\ inv' = [inv EXCEPT
               ![p].stripeCustomerId = nextStripeCustomerId(stripe),
               ![p].calls = Called(p, "stripe.customers.create"),
               ![p].pc = "saveCustomer"]
  /\ UNCHANGED <<customers, subscriptions, invoices, payments, now, last>>

\* customer = await repos.customers.create(...).  Whether the store refuses
\* a second row for the user is not the handler's to decide: both are
\* possible.
SaveCustomer(p) ==
  /\ inv[p].pc = "saveCustomer"
  /\ \E userIdUnique \in BOOLEAN :
       LET input == [userId |-> ConcurrentUser,
                     stripeCustomerId |-> inv[p].stripeCustomerId]
           saved == create(customers, input, <<>>)
       IN
       IF userIdUnique /\ uniqueViolation(customers, "userId", input)
         THEN /\ inv' = [inv EXCEPT
                           ![p].calls = Called(p, "customers.create"),
                           ![p].pc = "done",
                           ![p].result = "threw"]
              /\ UNCHANGED customers
         ELSE /\ customers' = saved
              /\ inv' = [inv EXCEPT
                           ![p].customer = saved[Len(saved)],
                           ![p].calls = Called(p, "customers.create"),
                           ![p].pc = "createSession"]
  /\ UNCHANGED <<subscriptions, invoices, payments, now, last, stripe>>

\* await stripe.checkout.sessions.create(...), the business event, and the
\* response.
CreateSession(p) ==
  /\ inv[p].pc = "createSession"
  /\ inv' = [inv EXCEPT
               ![p].calls = Called(p, "stripe.checkout.sessions.create"),
               ![p].pc = "done",
               ![p].result = "returned"]
  /\ UNCHANGED <<customers, subscriptions, invoices, payments, now, last,
                 stripe>>

InitCheckouts ==
  /\ customers = <<TheCustomer>>
  /\ subscriptions = <<OtherSubscription>>
  /\ invoices = <<>>
  /\ payments = <<>>
  /\ now = 0
  /\ last = Idle
  /\ inv \in [Invocations -> {Arrived(kind) : kind \in CheckoutKinds}]
  /\ stripe = TheProvider

NextCheckouts ==
  \E p \in Invocations :
    \/ FindByUserId(p)
    \/ FindActive(p)
    \/ CreateStripeCustomer(p)
    \/ SaveCustomer(p)
    \/ CreateSession(p)

SpecCheckouts == InitCheckouts /\ [][NextCheckouts]_vars

----------------------------------------------------------------------------
(* Two subscriptions of the known customer whose created and updated events
   carry the same payloads and arrive in opposite orders: created before
   updated for one, updated before created for the other.  Deliveries are
   handled one at a time and no store call fails. *)

\* The external id of the second subscription.
MirrorId == "sub_2"

OrderedIds == {SubId, MirrorId}

\* The payload of the created event: a subscription with one priced item.
OrderCreatedEvents ==
  { SubscriptionObject(AsString(KnownCustomer), s, [data |-> <<LineItem("price_a")>>],
                       p, cape, NULL, NULL, tr) :
      s \in EventStatuses, p \in Periods, cape \in BOOLEAN, tr \in Trials }

\* The payload of the updated event.
OrderUpdatedEvents ==
  { SubscriptionObject(AsString(KnownCustomer), s, [data |-> <<LineItem(pr)>>],
                       p, cape, NULL, NULL, <<NULL, NULL>>) :
      s \in EventStatuses, pr \in {"price_a", "price_b"}, p \in Periods,
      cape \in BOOLEAN }

Delivery(op, id) == [op |-> op, id |-> id]

Delivered(op, id) ==
  \E i \in 1..Len(inv.done) : inv.done[i] = Delivery(op, id)

\* The first subscription's created event comes first, the second's last.
MayDeliver(op, id) ==
  /\ ~Delivered(op, id)
  /\ (id = SubId /\ op = "customer.subscription.updated")
       => Delivered("customer.subscription.created", id)
  /\ (id = MirrorId /\ op = "customer.subscription.created")
       => Delivered("customer.subscription.updated", id)

DeliverCreated(id) ==
  /\ MayDeliver("customer.subscription.created", id)
  /\ LET ev == [inv.created EXCEPT !.id = id]
         o == handleSubscriptionCreated(ev, 0)
     IN /\ subscriptions' = o.table
        /\ last' = Observe("customer.subscription.created", ev,
                           subscriptions, o)
  /\ inv' = [inv EXCEPT !.done =
               Append(@, Delivery("customer.subscription.created", id))]
  /\ UNCHANGED <<customers, invoices, payments, now, stripe>>

DeliverUpdated(id) ==
  /\ MayDeliver("customer.subscription.updated", id)
  /\ LET ev == [inv.updated EXCEPT !.id = id]
         o == handleSubscriptionUpdated(ev, 0)
     IN /\ subscriptions' = o.table
        /\ last' = Observe("customer.subscription.updated", ev,
                           subscriptions, o)
  /\ inv' = [inv EXCEPT !.done =
               Append(@, Delivery("customer.subscription.updated", id))]
  /\ UNCHANGED <<customers, invoices, payments, now, stripe>>

\* The customer is there and neither subscription has a row.
InitOrder ==
  /\ customers = <<TheCustomer>>
  /\ subscriptions = <<OtherSubscription>>
  /\ invoices = <<>>
  /\ payments = <<>>
  /\ now = 0
  /\ last = Idle
  /\ inv \in [created : OrderCreatedEvents, updated : OrderUpdatedEvents,
              done : {<<>>}]
  /\ stripe = TheProvider

NextOrder ==
  \E id \in OrderedIds :
    \/ DeliverCreated(id)
    \/ DeliverUpdated(id)

SpecOrder == InitOrder /\ [][NextOrder]_vars

----------------------------------------------------------------------------
(* Properties of the subscription handlers *)

CreatedOp == "customer.subscription.created"
UpdatedOp == "customer.subscription.updated"
DeletedOp == "customer.subscription.deleted"
UpdateCall == "subscriptions.updateByStripeSubscriptionId"

\* Positions of the rows of `table` with the events' external id.
SubRows(table) ==
  {i \in 1..Len(table) : table[i].stripeSubscriptionId = SubId}

\* Every row of the table but those at the positions `at` is as before.
OthersKept(table, pre, at) ==
  /\ Len(table) = Len(pre)
  /\ \A i \in (1..Len(pre)) \ at : table[i] = pre[i]

\* The invocation logged no error: its store write was not rejected.
WriteSucceeded == \A i \in 1..Len(last.logs) : last.logs[i] # "error"

\* C1: a subscription-created event whose external id already has a row and
\* whose customer resolves issues no create and leaves the number of rows
\* unchanged; when it returns it has issued exactly one update, which set
\* the row's status, period bounds and cancel-at-period-end from the event
\* and nothing else.
C1_DuplicateCreatedUpdates ==
  (/\ last.op = CreatedOp
   /\ RefId(last.ev.customer) = KnownCustomer
   /\ SubRows(last.pre) # {})
  => /\ Count(last.calls, "subscriptions.create") = 0
     /\ Len(subscriptions) = Len(last.pre)
     /\ last.result = "returned" =>
          /\ Count(last.calls, UpdateCall) = 1
          /\ OthersKept(subscriptions, last.pre, SubRows(last.pre))
          /\ \A i \in SubRows(last.pre) :
               subscriptions[i] =
                 [last.pre[i] EXCEPT
                    !.status = last.ev.status,
                    !.currentPeriodStart = last.ev.current_period_start,
                    !.currentPeriodEnd = last.ev.current_period_end,
                    !.cancelAtPeriodEnd = last.ev.cancel_at_period_end]

\* A duplicate created event has just changed the status of its row.
C1_Witness ==
  /\ last.op = CreatedOp
  /\ last.result = "returned"
  /\ \E i \in SubRows(last.pre) :
       /\ last.pre[i].status = "active"
       /\ subscriptions[i].status = "past_due"

\* The row a created event inserts, by the specification's data model.
CreatedRow(ev, id) ==
  [id |-> id, customerId |-> 7, stripeSubscriptionId |-> ev.id,
   stripePriceId |-> ev.items.data[1].price.id, status |-> ev.status,
   currentPeriodStart |-> ev.current_period_start,
   currentPeriodEnd |-> ev.current_period_end,
   cancelAtPeriodEnd |-> ev.cancel_at_period_end,
   canceledAt |-> NULL, endedAt |-> NULL,
   trialStart |-> ev.trial_start, trialEnd |-> ev.trial_end]

HasPrice(ev) == ev.items # Absent /\ Len(ev.items.data) > 0

\* C3: the first delivery of a created event (customer known, no row, a
\* price on the first line item) inserts one row with the event's fields;
\* a second delivery of the same payload, finding exactly that row, leaves
\* the table as the first delivery left it.
C3_CreatedTwiceAsOnce ==
  (last.op = CreatedOp /\ last.result = "returned"
     /\ RefId(last.ev.customer) = KnownCustomer /\ HasPrice(last.ev))
  => /\ SubRows(last.pre) = {} =>
          subscriptions =
            Append(last.pre, CreatedRow(last.ev, Len(last.pre) + 1))
     /\ \A i \in SubRows(last.pre) :
          last.pre[i] = CreatedRow(last.ev, i) =>
            /\ subscriptions = last.pre
            /\ Cardinality(SubRows(subscriptions)) = 1

\* The second delivery of a payload that carries trial bounds, on the row
\* its first delivery created.
C3_Witness ==
  /\ last.op = CreatedOp
  /\ last.result = "returned"
  /\ HasPrice(last.ev)
  /\ last.ev.trial_end = 1500
  /\ Count(last.calls, UpdateCall) = 1
  /\ \E i \in SubRows(last.pre) : last.pre[i] = CreatedRow(last.ev, i)

\* C7: handleSubscriptionUpdated never propagates an exception.
C7_UpdatedNeverThrows ==
  last.op = UpdatedOp => last.result = "returned"

\* C8: an updated or deleted event whose external id has no row completes
\* without throwing and leaves the table unchanged.
C8_MissingRowTolerated ==
  (last.op \in {UpdatedOp, DeletedOp} /\ SubRows(last.pre) = {})
  => /\ last.result = "returned"
     /\ subscriptions = last.pre

\* C9: a successful deleted event on an existing row sets status canceled,
\* canceledAt and endedAt to the event's value when present and otherwise
\* to the clock reading taken for it, and changes nothing else.
C9_DeletedMarksCanceled ==
  (last.op = DeletedOp /\ last.result = "returned" /\ WriteSucceeded
     /\ SubRows(last.pre) # {})
  => /\ OthersKept(subscriptions, last.pre, SubRows(last.pre))
     /\ last.ev.clock[1] <= last.ev.clock[2] /\ last.ev.clock[2] = now
     /\ \A i \in SubRows(last.pre) :
          subscriptions[i] =
            [last.pre[i] EXCEPT
               !.status = "canceled",
               !.canceledAt = IF last.ev.canceled_at # NULL
                                THEN last.ev.canceled_at
                                ELSE last.ev.clock[1],
               !.endedAt = IF last.ev.ended_at # NULL
                             THEN last.ev.ended_at
                             ELSE last.ev.clock[2]]

\* A deleted event without canceled_at has stamped an active row with the
\* clock, and kept the ended_at the event carried.
C9_Witness ==
  /\ last.op = DeletedOp
  /\ WriteSucceeded
  /\ last.ev.canceled_at = NULL /\ last.ev.ended_at = 1600
  /\ \E i \in SubRows(last.pre) :
       /\ last.pre[i].status = "active"
       /\ subscriptions[i].status = "canceled"
       /\ subscriptions[i].canceledAt = 1
       /\ subscriptions[i].endedAt = 1600

\* C10: after a successful updated event on an existing row, the row's
\* status, period bounds, cancel-at-period-end, canceled-at, ended-at and
\* trial bounds equal the event's values, null included, and the price id
\* is the first line item's price when there is one.
C10_UpdatedCopiesEvent ==
  (last.op = UpdatedOp /\ last.result = "returned" /\ WriteSucceeded)
  => \A i \in SubRows(last.pre) :
       /\ subscriptions[i].status = last.ev.status
       /\ subscriptions[i].currentPeriodStart = last.ev.current_period_start
       /\ subscriptions[i].currentPeriodEnd = last.ev.current_period_end
       /\ subscriptions[i].cancelAtPeriodEnd = last.ev.cancel_at_period_end
       /\ subscriptions[i].canceledAt = last.ev.canceled_at
       /\ subscriptions[i].endedAt = last.ev.ended_at
       /\ subscriptions[i].trialStart = last.ev.trial_start
       /\ subscriptions[i].trialEnd = last.ev.trial_end
       /\ HasPrice(last.ev) =>
            subscriptions[i].stripePriceId = last.ev.items.data[1].price.id

----------------------------------------------------------------------------
(* Properties of the invoice handlers *)

InvRows(table) == {i \in 1..Len(table) : table[i].stripeInvoiceId = InvoiceId}

\* The local subscription id an invoice event resolves to: the earlier
\* subscription has local id 1, the other reference has no row.
ExpectedSubscriptionId(invoice) ==
  IF invoice.subscription = AsString("sub_0") THEN 1 ELSE NULL

\* C4: an invoice-paid event whose customer resolves never issues both a
\* create and an update.  With an Invoice row for its external id it issues
\* no create and, when it returns, exactly one update, which sets status
\* paid, the amount paid and the URLs the event carries; without one it
\* issues no update and, when it returns, exactly one create of a row that
\* is paid, has the event's fields, the customer's id and the resolved
\* subscription id.
C4_InvoicePaidUpsert ==
  (last.op = "invoice.paid" /\ RefId(last.ev.customer) = KnownCustomer)
  => /\ InvRows(last.pre) # {} =>
          /\ Count(last.calls, "invoices.create") = 0
          /\ last.result = "returned" =>
               /\ Count(last.calls, "invoices.updateByStripeInvoiceId") = 1
               /\ OthersKept(invoices, last.pre, InvRows(last.pre))
               /\ \A i \in InvRows(last.pre) :
                    invoices[i] =
                      [last.pre[i] EXCEPT
                         !.status = "paid",
                         !.amountPaid = last.ev.amount_paid,
                         !.invoiceUrl =
                            IF last.ev.hosted_invoice_url # UNDEFINED
                              THEN last.ev.hosted_invoice_url ELSE @,
                         !.invoicePdf =
                            IF last.ev.invoice_pdf # UNDEFINED
                              THEN last.ev.invoice_pdf ELSE @]
     /\ InvRows(last.pre) = {} =>
          /\ Count(last.calls, "invoices.updateByStripeInvoiceId") = 0
          /\ last.result = "returned" =>
               /\ Count(last.calls, "invoices.create") = 1
               /\ invoices =
                    Append(last.pre,
                      [id |-> Len(last.pre) + 1, customerId |-> 7,
                       subscriptionId |-> ExpectedSubscriptionId(last.ev),
                       stripeInvoiceId |-> last.ev.id,
                       amountDue |-> last.ev.amount_due,
                       amountPaid |-> last.ev.amount_paid,
                       currency |-> last.ev.currency, status |-> "paid",
                       invoiceUrl |-> last.ev.hosted_invoice_url,
                       invoicePdf |-> last.ev.invoice_pdf,
                       periodStart |-> last.ev.period_start,
                       periodEnd |-> last.ev.period_end])

\* An invoice first recorded as open by a payment failure has been paid,
\* and an invoice linked to the earlier subscription has been created.
C4_Witness ==
  /\ last.op = "invoice.paid"
  /\ last.result = "returned"
  /\ \E i \in InvRows(last.pre) :
       /\ last.pre[i].status = "open"
       /\ last.pre[i].subscriptionId = 1
       /\ invoices[i].status = "paid"
       /\ invoices[i].amountPaid = 900

\* C12: an invoice-payment-failed event whose customer resolves never
\* issues both a create and an update.  With an Invoice row for its external
\* id it issues no create and, when it returns, exactly one update, which
\* sets the status to open and nothing else; without one it issues no update
\* and, when it returns, exactly one create of a row that is open, has
\* amountPaid 0, the event's amount due, currency, period and hosted URL,
\* the customer's id and the resolved subscription id.
C12_InvoiceFailedUpsert ==
  (last.op = "invoice.payment_failed"
   /\ RefId(last.ev.customer) = KnownCustomer)
  => /\ InvRows(last.pre) # {} =>
          /\ Count(last.calls, "invoices.create") = 0
          /\ last.result = "returned" =>
               /\ Count(last.calls, "invoices.updateByStripeInvoiceId") = 1
               /\ OthersKept(invoices, last.pre, InvRows(last.pre))
               /\ \A i \in InvRows(last.pre) :
                    invoices[i] = [last.pre[i] EXCEPT !.status = "open"]
     /\ InvRows(last.pre) = {} =>
          /\ Count(last.calls, "invoices.updateByStripeInvoiceId") = 0
          /\ last.result = "returned" =>
               /\ Count(last.calls, "invoices.create") = 1
               /\ invoices =
                    Append(last.pre,
                      [id |-> Len(last.pre) + 1, customerId |-> 7,
                       subscriptionId |-> ExpectedSubscriptionId(last.ev),
                       stripeInvoiceId |-> last.ev.id,
                       amountDue |-> last.ev.amount_due,
                       amountPaid |-> 0,
                       currency |-> last.ev.currency, status |-> "open",
                       invoiceUrl |-> last.ev.hosted_invoice_url,
                       invoicePdf |-> UNDEFINED,
                       periodStart |-> last.ev.period_start,
                       periodEnd |-> last.ev.period_end])

\* A failed payment has created an open invoice of 900 due in eur, linked
\* to the earlier subscription, with nothing paid.
C12_Witness ==
  /\ last.op = "invoice.payment_failed"
  /\ last.result = "returned"
  /\ last.pre = <<>>
  /\ Len(invoices) = 1
  /\ invoices[1].status = "open"
  /\ invoices[1].amountDue = 900
  /\ invoices[1].amountPaid = 0
  /\ invoices[1].currency = "eur"
  /\ invoices[1].subscriptionId = 1

----------------------------------------------------------------------------
(* Properties of the checkout-completed handler *)

CheckoutOp == "checkout.session.completed"

\* The local customer id each metadata.customerId of the events stands for.
ExpectedCustomerId(md) == IF md.customerId = <<"7">> THEN 7 ELSE 12

HasCustomerId(session) == "customerId" \in DOMAIN session.metadata

\* C5: a checkout-completed event in payment mode that carries
\* metadata.customerId issues exactly one create; when the store accepts
\* it, exactly one Payment row is added, with status succeeded, the
\* session's total as amount (0 without one), the session's currency (usd
\* without one) and the integer metadata.customerId spells as customerId,
\* and one payment-succeeded notification is recorded.
C5_PaymentCheckoutCreatesPayment ==
  (/\ last.op = CheckoutOp
   /\ last.ev.mode = "payment"
   /\ HasCustomerId(last.ev))
  => /\ last.calls = <<"payments.create">>
     /\ last.result = "returned" =>
          /\ Len(payments) = Len(last.pre) + 1
          /\ SubSeq(payments, 1, Len(last.pre)) = last.pre
          /\ LET row == payments[Len(payments)] IN
             /\ row.status = "succeeded"
             /\ row.amount = IF last.ev.amount_total \in {NULL, 0}
                               THEN 0 ELSE last.ev.amount_total
             /\ row.currency = IF last.ev.currency = UNDEFINED
                                 THEN "usd" ELSE last.ev.currency
             /\ row.customerId = ExpectedCustomerId(last.ev.metadata)
             /\ row.stripeCheckoutSessionId = last.ev.id
             /\ row.stripePaymentIntentId = last.ev.payment_intent
             /\ row.description = "One-time payment via checkout"
             /\ row.metadata = last.ev.metadata
          /\ Len(last.notes) = 1
          /\ last.notes[1].type = "payment.succeeded"
     /\ last.result = "threw" => payments = last.pre /\ last.notes = <<>>

\* A session without total and currency, for the customer written "12",
\* has become a Payment of 0 usd owned by customer 12.
C5_Witness ==
  /\ last.op = CheckoutOp
  /\ last.ev.mode = "payment"
  /\ HasCustomerId(last.ev)
  /\ last.ev.metadata.customerId = <<"1", "2">>
  /\ last.ev.amount_total = NULL
  /\ last.ev.currency = UNDEFINED
  /\ last.result = "returned"
  /\ payments[Len(payments)].customerId = 12
  /\ payments[Len(payments)].amount = 0
  /\ payments[Len(payments)].currency = "usd"

\* The event just handled is one the handler must ignore.
IgnoredCheckout(l) ==
  /\ l.op = CheckoutOp
  /\ (~HasCustomerId(l.ev) \/ l.ev.mode = "subscription")

\* C6: a checkout-completed event without metadata.customerId, whatever its
\* mode, or in subscription mode, makes no store call, records no
\* notification, returns, and leaves every table as it was.
C6_IgnoredCheckoutWritesNothing ==
  /\ [](IgnoredCheckout(last) =>
          /\ last.calls = <<>>
          /\ last.notes = <<>>
          /\ last.result = "returned"
          /\ payments = last.pre)
  /\ [][IgnoredCheckout(last') /\ last = Idle =>
          UNCHANGED <<customers, subscriptions, invoices, payments>>]_vars

\* A subscription-mode session that carries a customer id has been handled
\* after a payment had been recorded.
C6_Witness ==
  /\ IgnoredCheckout(last)
  /\ last.ev.mode = "subscription"
  /\ HasCustomerId(last.ev)
  /\ Len(last.pre) = 1
  /\ payments = last.pre

----------------------------------------------------------------------------
(* Properties of the payment-intent handlers *)

PaymentIntentOps == {"payment_intent.succeeded", "payment_intent.payment_failed"}

StatusWritten(op) ==
  IF op = "payment_intent.succeeded" THEN "succeeded" ELSE "failed"

PayRows(table, pi) ==
  {i \in 1..Len(table) : table[i].stripePaymentIntentId = pi}

\* C11: a payment-intent succeeded / failed event never issues a create and
\* never changes the number of rows.  Without a Payment row for its intent
\* id it issues no update and the table is unchanged.  With one, and the
\* store answering, it issues exactly one update, after which the rows of
\* that intent have status succeeded / failed and are otherwise as before,
\* and every other row is untouched.
C11_PaymentIntentUpdatesIffFound ==
  last.op \in PaymentIntentOps
  => /\ Count(last.calls, "payments.create") = 0
     /\ Len(payments) = Len(last.pre)
     /\ PayRows(last.pre, last.ev.id) = {} =>
          /\ Count(last.calls, "payments.updateByPaymentIntentId") = 0
          /\ payments = last.pre
     /\ (PayRows(last.pre, last.ev.id) # {} /\ WriteSucceeded) =>
          /\ Count(last.calls, "payments.updateByPaymentIntentId") = 1
          /\ OthersKept(payments, last.pre, PayRows(last.pre, last.ev.id))
          /\ \A i \in PayRows(last.pre, last.ev.id) :
               payments[i] =
                 [last.pre[i] EXCEPT !.status = StatusWritten(last.op)]

\* A payment recorded as succeeded by a checkout has been marked failed,
\* next to a payment without an intent id that stayed as it was.
C11_Witness ==
  /\ last.op = "payment_intent.payment_failed"
  /\ Len(last.pre) = 2
  /\ last.pre[1].stripePaymentIntentId = UNDEFINED
  /\ last.pre[2].stripePaymentIntentId = "pi_1"
  /\ last.pre[2].status = "succeeded"
  /\ payments[2].status = "failed"
  /\ payments[1] = last.pre[1]

----------------------------------------------------------------------------
(* Properties of concurrent subscription-created deliveries *)

CreatesIssued ==
  Cardinality({p \in Invocations :
                 Count(inv[p].calls, "subscriptions.create") > 0})

\* C2: while and after two concurrent subscription-created invocations for
\* one external id run, with the customer known and no row for the id at the
\* start, at most one of them has issued a create, and once both are done
\* the store holds exactly one row for the id.
C2_ConcurrentCreatedOneCreate ==
  /\ CreatesIssued <= 1
  /\ (\A p \in Invocations : inv[p].pc = "done")
       => Cardinality(SubRows(subscriptions)) = 1

----------------------------------------------------------------------------
(* Properties of the dispatcher and of the handlers it routes to *)

\* The handlers that attribute their event to a local customer.
AttributingOps ==
  {"customer.subscription.created", "invoice.paid", "invoice.payment_failed"}

\* The write calls of the repositories.
WriteCalls ==
  {"customers.create", "subscriptions.create",
   "subscriptions.updateByStripeSubscriptionId", "invoices.create",
   "invoices.updateByStripeInvoiceId", "payments.create",
   "payments.updateByPaymentIntentId"}

WritesIssued(calls) == {i \in 1..Len(calls) : calls[i] \in WriteCalls}

\* The event carries no customer id, or the store answered that no Customer
\* has it.
CustomerUnresolved(l) ==
  \/ RefId(l.ev.customer) = UNDEFINED
  \/ /\ l.fail # 1
     /\ Matching(l.pre.customers, "stripeCustomerId",
                 RefId(l.ev.customer)) = {}

\* C13: a subscription-created, invoice-paid or invoice-payment-failed event
\* whose customer id is missing or resolves to no Customer makes the handler
\* return normally with no write call issued, no notification recorded and
\* every table as it was.
C13_UnresolvedCustomerNoOp ==
  (last.op \in AttributingOps /\ CustomerUnresolved(last))
  => /\ last.result = "returned"
     /\ WritesIssued(last.calls) = {}
     /\ last.notes = <<>>
     /\ Store = last.pre

\* An invoice-paid event for a customer the store does not know has been
\* handled after the known customer's subscription and invoice were stored.
C13_Witness ==
  /\ last.op = "invoice.paid"
  /\ RefId(last.ev.customer) = UnknownCustomer
  /\ last.fail = 0
  /\ last.result = "returned"
  /\ Len(last.pre.subscriptions) = 2
  /\ Len(last.pre.invoices) = 1
  /\ Store = last.pre

\* The invocation recorded a business event and the sink failed on it.
SinkFailed(l) == \E i \in 1..Len(l.notes) : l.notes[i].sink = "failed"

\* What the same delivery leaves in the store when nothing fails.
StoreWithoutFailure(l) ==
  processWebhookEvent(WebhookEvent(l.op, l.ev), 0, l.clock[1],
                      l.clock[2]).store

\* C14: whenever a handler has issued its store write and the notification
\* sink then fails on the business event, the invocation still returns
\* normally and the store is exactly what the same event leaves when
\* nothing fails.
C14_SinkFailureNeverFailsHandler ==
  [][(last = Idle /\ last' # Idle /\ SinkFailed(last'))
       => /\ last'.result = "returned"
          /\ WritesIssued(last'.calls) # {}
          /\ customers' = StoreWithoutFailure(last').customers
          /\ subscriptions' = StoreWithoutFailure(last').subscriptions
          /\ invoices' = StoreWithoutFailure(last').invoices
          /\ payments' = StoreWithoutFailure(last').payments]_vars

\* The sink has failed on the payment-failed business event after the
\* invoice was created, and the invoice is there.
C14_Witness ==
  /\ last # Idle
  /\ last.op = "invoice.payment_failed"
  /\ SinkFailed(last)
  /\ last.result = "returned"
  /\ Len(invoices) = Len(last.pre.invoices) + 1

\* The handlers whose writes are outside any try/catch.
UnguardedOps ==
  {"checkout.session.completed", "customer.subscription.created",
   "invoice.paid", "invoice.payment_failed"}

\* The last call the invocation issued was a write, and the store rejected
\* it.
WriteRejected(l) ==
  /\ l.calls # <<>>
  /\ l.calls[Len(l.calls)] \in WriteCalls
  /\ l.fail = Len(l.calls)

\* C15: when the store rejects the write of the checkout-completed handler
\* (payments.create), of an invoice handler (invoices.create or
\* invoices.update) or of the subscription-created handler
\* (subscriptions.create or its update), the invocation throws, records no
\* notification, and leaves every table as it was.
C15_UnguardedWriteFailurePropagates ==
  (last.op \in UnguardedOps /\ WriteRejected(last))
  => /\ last.result = "threw"
     /\ last.notes = <<>>
     /\ Store = last.pre

\* The store has rejected the update of an existing invoice by invoice-paid.
C15_Witness ==
  /\ last.op = "invoice.paid"
  /\ WriteRejected(last)
  /\ last.calls[Len(last.calls)] = "invoices.updateByStripeInvoiceId"
  /\ last.result = "threw"
  /\ Len(invoices) = 1

\* C16: a customer-created event, whether or not a Customer with its
\* external id exists and however the invocation ends, issues no write call
\* and leaves every table as it was.
C16_CustomerCreatedWritesNothing ==
  last.op = "customer.created"
  => /\ WritesIssued(last.calls) = {}
     /\ last.calls = <<"customers.findByStripeCustomerId">>
     /\ last.notes = <<>>
     /\ Store = last.pre

\* A customer-created event for a customer the store does not have has
\* returned with a warning.
C16_Witness ==
  /\ last.op = "customer.created"
  /\ last.ev.id = UnknownCustomer
  /\ last.result = "returned"
  /\ last.logs = <<"info", "warn">>
  /\ Matching(customers, "stripeCustomerId", UnknownCustomer) = {}

\* The handler written for each event type.
ExpectedHandler(type) ==
  CASE type = "checkout.session.completed" -> "handleCheckoutSessionCompleted"
    [] type = "customer.created" -> "handleCustomerCreated"
    [] type = "customer.subscription.created" -> "handleSubscriptionCreated"
    [] type = "customer.subscription.updated" -> "handleSubscriptionUpdated"
    [] type = "customer.subscription.deleted" -> "handleSubscriptionDeleted"
    [] type = "invoice.paid" -> "handleInvoicePaid"
    [] type = "invoice.payment_failed" -> "handleInvoicePaymentFailed"
    [] type = "payment_intent.succeeded" -> "handlePaymentIntentSucceeded"
    [] type = "payment_intent.payment_failed" -> "handlePaymentIntentFailed"
    [] OTHER -> "none"

\* The one table each handler writes.
TableOf(handler) ==
  CASE handler \in {"handleCheckoutSessionCompleted",
                    "handlePaymentIntentSucceeded",
                    "handlePaymentIntentFailed"} -> "payments"
    [] handler \in {"handleSubscriptionCreated", "handleSubscriptionUpdated",
                    "handleSubscriptionDeleted"} -> "subscriptions"
    [] handler \in {"handleInvoicePaid", "handleInvoicePaymentFailed"}
         -> "invoices"
    [] OTHER -> "none"

\* C20: the dispatcher invokes the handler written for the event's type and
\* no other, so only that handler's table can differ afterwards; for a type
\* without a handler it completes normally, with no store call, no
\* notification and every table as it was.
C20_DispatchByType ==
  last # Idle
  => /\ last.handler = ExpectedHandler(last.op)
     /\ \A t \in DOMAIN Store :
          t # TableOf(last.handler) => Store[t] = last.pre[t]
     /\ last.handler = "none" =>
          /\ last.result = "returned"
          /\ last.calls = <<>>
          /\ last.notes = <<>>
          /\ Store = last.pre

\* An invoice-payment-failed event reached its handler, which created the
\* open invoice.
C20_Witness ==
  /\ last # Idle
  /\ last.op = "invoice.payment_failed"
  /\ last.handler = "handleInvoicePaymentFailed"
  /\ last.pre.invoices = <<>>
  /\ Len(invoices) = 1
  /\ invoices[1].status = "open"

\* An event of a type without a handler has been acknowledged after rows
\* had been written.
C20_WitnessUnhandled ==
  /\ last # Idle
  /\ last.op = "charge.refunded"
  /\ last.result = "returned"
  /\ Len(subscriptions) = 2

----------------------------------------------------------------------------
(* Properties of the checkout endpoints *)

CheckoutPost == "POST /api/stripe/checkout"

\* The user of the request, and the Customer rows that user owned before it.
RequestUser(l) == NumberOf(l.ev.session.user.id)
OwnedBefore(l) == Matching(l.pre.customers, "userId", RequestUser(l))

\* The request is authenticated and carries a price id.
WellFormed(l) ==
  /\ authenticated(l.ev.session)
  /\ l.ev.body # InvalidJson
  /\ l.ev.body.priceId # UNDEFINED

\* C19: a well-formed POST /api/stripe/checkout by a user who has a
\* Customer creates no provider customer and no Customer row, and the
\* session it asks for is in payment mode for that Customer's external id.
\* By a user who has none, a request that gets its response has created
\* exactly one provider customer and exactly one Customer row, owned by the
\* user and carrying the provider's id, and its session is in payment mode
\* for that id.  No other request creates either.
C19_CheckoutCreatesCustomerIffNone ==
  last.op = CheckoutPost
  => /\ (~WellFormed(last) \/ OwnedBefore(last) # {}) =>
          /\ Count(last.calls, "stripe.customers.create") = 0
          /\ Count(last.calls, "customers.create") = 0
          /\ customers = last.pre.customers
          /\ stripe = last.preStripe
     /\ (WellFormed(last) /\ OwnedBefore(last) # {}
         /\ last.result = "returned") =>
          /\ last.session.mode = "payment"
          /\ \E i \in OwnedBefore(last) :
               last.session.customer = last.pre.customers[i].stripeCustomerId
     /\ (WellFormed(last) /\ OwnedBefore(last) = {}
         /\ last.result = "returned") =>
          /\ Count(last.calls, "stripe.customers.create") = 1
          /\ Count(last.calls, "customers.create") = 1
          /\ Len(customers) = Len(last.pre.customers) + 1
          /\ Len(stripe.customers) = Len(last.preStripe.customers) + 1
          /\ customers[Len(customers)].userId = RequestUser(last)
          /\ customers[Len(customers)].stripeCustomerId =
               stripe.customers[Len(stripe.customers)].id
          /\ last.session.mode = "payment"
          /\ last.session.customer = customers[Len(customers)].stripeCustomerId

\* The user who owns the known customer has got a payment session for it,
\* after the other user's customer had been created.
C19_Witness ==
  /\ last.op = CheckoutPost
  /\ WellFormed(last)
  /\ RequestUser(last) = 1
  /\ last.result = "returned"
  /\ last.session.customer = KnownCustomer
  /\ Len(customers) = 2
  /\ customers[2].userId = 2

\* Provider customers created for a user.
ProviderCustomersOf(userId) ==
  {i \in 1..Len(stripe.customers) : stripe.customers[i].userId = userId}

\* C18: while and after two concurrent checkout requests of one user run,
\* one-time or subscription, the user owns at most one Customer row and at
\* most one provider customer has been created for the user.
C18_OneCustomerPerUser ==
  /\ Cardinality(Matching(customers, "userId", ConcurrentUser)) <= 1
  /\ Cardinality(ProviderCustomersOf(ConcurrentUser)) <= 1

----------------------------------------------------------------------------
(* Properties of the whole billing layer *)

CancelPost == "POST /api/stripe/subscription/cancel"

\* The operations that cancel or end a subscription.
EndingOps == {"customer.subscription.deleted", CancelPost}

\* Every row of `before` is in `after` at its place, under its identity.
RowsKept(before, after) ==
  /\ Len(after) >= Len(before)
  /\ \A i \in 1..Len(before) : after[i].id = before[i].id

\* C17: no step of any sequence of webhook deliveries and endpoint requests
\* removes a Customer, Subscription, Invoice or Payment row: the rows of each
\* table keep their identities and new ones are only added; a step that
\* cancels or ends a subscription leaves the number of Subscription rows as
\* it was.
C17_NoRowDeleted ==
  [][/\ RowsKept(customers, customers')
     /\ RowsKept(subscriptions, subscriptions')
     /\ RowsKept(invoices, invoices')
     /\ RowsKept(payments, payments')
     /\ last'.op \in EndingOps => Len(subscriptions') = Len(subscriptions)]_vars

\* A subscription-deleted event has ended a subscription that was not
\* canceled before: its row is still there, now with status canceled.
C17_Witness ==
  /\ last.op = "customer.subscription.deleted"
  /\ last.result = "returned"
  /\ \E i \in 1..Len(last.pre.subscriptions) :
       /\ last.pre.subscriptions[i].stripeSubscriptionId = last.ev.id
       /\ last.pre.subscriptions[i].status # "canceled"
       /\ subscriptions[i].id = last.pre.subscriptions[i].id
       /\ subscriptions[i].status = "canceled"
  /\ Len(subscriptions) = Len(last.pre.subscriptions)

----------------------------------------------------------------------------
(* Notifications *)

\* C21: a handler invocation that has recorded a notification has returned
\* normally, has issued a store write, and has left the store different from
\* what it found; on a no-op path or after a failed write nothing is
\* recorded.
C21_NotifyOnlyAfterChange ==
  (last # Idle /\ last.notes # <<>>)
  => /\ last.result = "returned"
     /\ WritesIssued(last.calls) # {}
     /\ Store # last.pre

----------------------------------------------------------------------------
(* Swallowed store failures *)

\* The handlers whose store calls are all inside a try/catch.
GuardedOps ==
  {"customer.subscription.deleted", "payment_intent.succeeded",
   "payment_intent.payment_failed"}

\* The store rejected the call the invocation issued last, a lookup or an
\* update.
StoreCallRejected(l) == l.calls # <<>> /\ l.fail = Len(l.calls)

\* C22: when the store rejects the lookup or the update of the
\* subscription-deleted handler or of a payment-intent handler, the
\* invocation returns normally, logs the error, records no notification and
\* leaves every table as it was.
C22_GuardedStoreFailureSwallowed ==
  (last.op \in GuardedOps /\ StoreCallRejected(last))
  => /\ last.result = "returned"
     /\ last.logs[Len(last.logs)] = "error"
     /\ last.notes = <<>>
     /\ Store = last.pre

\* The store has rejected the update of a payment-intent-failed event whose
\* Payment row exists; the row still has the status it had.
C22_Witness ==
  /\ last.op = "payment_intent.payment_failed"
  /\ last.fail = 2
  /\ last.calls = <<"payments.findByPaymentIntentId",
                    "payments.updateByPaymentIntentId">>
  /\ last.result = "returned"
  /\ \E i \in 1..Len(payments) :
       /\ payments[i].stripePaymentIntentId = last.ev.id
       /\ payments[i].status = "succeeded"

----------------------------------------------------------------------------
(* Malformed subscription-created events *)

\* The first line item yields no price id: there is none, it has no price,
\* or its price has no id (the list of line items is there).
NoPriceId(items) ==
  /\ items # Absent
  /\ \/ items.data = <<>>
     \/ items.data[1].price = Absent
     \/ items.data[1].price.id = UNDEFINED

\* The event's customer resolves, no row has its external id, both lookups
\* were answered, and the first line item yields no price id.
CreatedWithoutPrice(l) ==
  /\ l.op = "customer.subscription.created"
  /\ l.fail \notin {1, 2}
  /\ Matching(l.pre.customers, "stripeCustomerId", RefId(l.ev.customer)) # {}
  /\ Matching(l.pre.subscriptions, "stripeSubscriptionId", l.ev.id) = {}
  /\ NoPriceId(l.ev.items)

\* C23: a subscription-created event with a resolvable customer, no existing
\* row and no price id on its first line item makes the handler return
\* normally, with no write call issued, no notification recorded and every
\* table as it was.
C23_CreatedWithoutPriceNoOp ==
  CreatedWithoutPrice(last)
  => /\ last.result = "returned"
     /\ WritesIssued(last.calls) = {}
     /\ last.notes = <<>>
     /\ Store = last.pre

----------------------------------------------------------------------------
(* Order of a subscription's events *)

\* The status the event asks for.
StatusOf(l) == IF l.op = DeletedOp THEN "canceled" ELSE l.ev.status

\* The event was processed: its handler returned and no store call of it
\* was rejected.  A created event is one of the row's customer.
Processed(l) ==
  /\ l.op \in {CreatedOp, UpdatedOp, DeletedOp}
  /\ l.result = "returned"
  /\ \A i \in 1..Len(l.logs) : l.logs[i] # "error"
  /\ l.op = CreatedOp => RefId(l.ev.customer) = KnownCustomer

\* C24: for a Subscription row that exists, each created (duplicate), updated
\* or deleted event for its external id that is processed without store
\* failure leaves the row with the status that event carries (canceled for a
\* deleted event), whatever events were processed before it; an event whose
\* handling failed leaves the status as it was.  So after any sequence the
\* status is that of the last processed event.
C24_LastWriteWins ==
  (last # Idle /\ SubRows(last.pre) # {})
  => \A i \in SubRows(last.pre) :
       /\ subscriptions[i].stripeSubscriptionId = SubId
       /\ IF Processed(last)
            THEN subscriptions[i].status = StatusOf(last)
            ELSE subscriptions[i].status = last.pre[i].status

\* A duplicate created event carrying status active has been processed on
\* a row that an earlier deleted event had marked canceled.
C24_Witness ==
  /\ last.op = CreatedOp
  /\ Processed(last)
  /\ last.ev.status = "active"
  /\ \E i \in SubRows(last.pre) :
       /\ last.pre[i].status = "canceled"
       /\ last.pre[i].endedAt # NULL
       /\ subscriptions[i].status = "active"

----------------------------------------------------------------------------
(* Out-of-order delivery *)

\* All four deliveries have been handled.
BothOrdersDone == Len(inv.done) = 4

\* What the claim compares of a stored Subscription.
Reconciled(row) ==
  [status |-> row.status, stripePriceId |-> row.stripePriceId,
   currentPeriodStart |-> row.currentPeriodStart,
   currentPeriodEnd |-> row.currentPeriodEnd,
   cancelAtPeriodEnd |-> row.cancelAtPeriodEnd]

\* C25: with the customer present and no row at first, created-then-updated
\* and updated-then-created deliveries of the same two payloads leave a row
\* each, and the two rows have the same status, price id, period bounds and
\* cancel-at-period-end.
C25_OutOfOrderReconciled ==
  BothOrdersDone
  => /\ Found(findBy(subscriptions, "stripeSubscriptionId", SubId))
     /\ Found(findBy(subscriptions, "stripeSubscriptionId", MirrorId))
     /\ Reconciled(findBy(subscriptions, "stripeSubscriptionId", SubId))
          = Reconciled(findBy(subscriptions, "stripeSubscriptionId", MirrorId))

----------------------------------------------------------------------------
(* Order of an invoice's events *)

\* C26: an Invoice that is recorded as paid is still paid after an
\* invoice-payment-failed event for its external id has been handled, so
\* that paid-then-failed ends like failed-then-paid, which ends paid.
C26_PaidInvoiceStaysPaid ==
  (last.op = "invoice.payment_failed" /\ last.result = "returned")
  => \A i \in InvRows(last.pre) :
       last.pre[i].status = "paid" => invoices[i].status = "paid"

----------------------------------------------------------------------------
(* Redelivery of checkout-completed *)

\* The Payment row an earlier delivery of the same event created is there.
DeliveredBefore(l) ==
  /\ HasCustomerId(l.ev)
  /\ l.ev.mode = "payment"
  /\ \E i \in 1..Len(l.pre) :
       l.pre[i] = [id |-> i]
                  @@ paymentInput(l.ev, ParseInt(metadataCustomerId(l.ev)))
                  @@ PaymentDefaults

\* C27: after a payment-mode checkout-completed event has been handled
\* again, there is still at most one Payment row with its checkout-session
\* id.
C27_CheckoutCompletedIdempotent ==
  (last.op = CheckoutOp /\ DeliveredBefore(last))
  => Cardinality(Matching(payments, "stripeCheckoutSessionId", last.ev.id)) <= 1

----------------------------------------------------------------------------
(* What the invoice updates leave alone *)

InvoiceOps == {"invoice.paid", "invoice.payment_failed"}

\* The columns no invoice event rewrites, and those a failed payment keeps
\* besides.
OwnershipOf(row) ==
  [customerId |-> row.customerId, subscriptionId |-> row.subscriptionId,
   amountDue |-> row.amountDue, currency |-> row.currency,
   periodStart |-> row.periodStart, periodEnd |-> row.periodEnd]

SettlementOf(row) ==
  [amountPaid |-> row.amountPaid, invoiceUrl |-> row.invoiceUrl,
   invoicePdf |-> row.invoicePdf]

\* C28: an invoice-paid or invoice-payment-failed event for an Invoice that
\* exists leaves the row's customer id, subscription id, amount due,
\* currency and period bounds as they were, whatever the event carries and
\* however the invocation ends; a payment-failed event also leaves the
\* amount paid and the two URLs.  An invoice stored without a subscription
\* stays without one.
C28_InvoiceUpdateFrame ==
  (last.op \in InvoiceOps)
  => \A i \in InvRows(last.pre) :
       /\ invoices[i].id = last.pre[i].id
       /\ OwnershipOf(invoices[i]) = OwnershipOf(last.pre[i])
       /\ last.op = "invoice.payment_failed"
            => SettlementOf(invoices[i]) = SettlementOf(last.pre[i])

\* A paid event that names the earlier subscription and another amount due,
\* currency and period has updated an invoice stored without a
\* subscription: the row is paid and still unlinked.
C28_Witness ==
  /\ last.op = "invoice.paid"
  /\ last.result = "returned"
  /\ last.ev.subscription = AsString("sub_0")
  /\ Count(last.calls, "invoices.updateByStripeInvoiceId") = 1
  /\ \E i \in InvRows(last.pre) :
       /\ last.pre[i].subscriptionId = NULL
       /\ last.pre[i].status = "open"
       /\ last.pre[i].amountDue # last.ev.amount_due
       /\ last.pre[i].currency # last.ev.currency
       /\ invoices[i].status = "paid"
       /\ invoices[i].subscriptionId = NULL

----------------------------------------------------------------------------
(* What the endpoints leave alone *)

\* The requests of the checkout, cancel and resume endpoints.
EndpointOps ==
  {"POST /api/stripe/checkout", "POST /api/stripe/checkout/subscription",
   "POST /api/stripe/subscription/cancel",
   "POST /api/stripe/subscription/resume"}

\* Every row of `before` is in `after`, with every field as it was.
RowsUntouched(before, after) ==
  /\ Len(after) >= Len(before)
  /\ \A i \in 1..Len(before) : after[i] = before[i]

\* C29: a request to the checkout, subscription-checkout, cancel or resume
\* endpoint changes no field of a Customer, Subscription, Invoice or Payment
\* row that was stored before it.
C29_EndpointsChangeNoRow ==
  (last.op \in EndpointOps)
  => /\ RowsUntouched(last.pre.customers, customers)
     /\ RowsUntouched(last.pre.subscriptions, subscriptions)
     /\ RowsUntouched(last.pre.invoices, invoices)
     /\ RowsUntouched(last.pre.payments, payments)

----------------------------------------------------------------------------
(* Ownership of checkout sessions *)

CheckoutOps ==
  {"POST /api/stripe/checkout", "POST /api/stripe/checkout/subscription"}

\* C30: every session a checkout or subscription-checkout request has
\* created carries, as metadata.customerId, the local id of the requesting
\* user's own Customer and, as metadata.userId, that user's id, both in
\* decimal, whatever metadata the request body supplies.
C30_SessionMetadataIsOwn ==
  (last.op \in CheckoutOps /\ last.result = "returned")
  => /\ last.session.metadata.userId = String(RequestUser(last))
     /\ last.session.metadata.customerId =
          String(findBy(customers, "userId", RequestUser(last)).id)

----------------------------------------------------------------------------
(* Properties of POST /api/stripe/subscription/cancel *)

ProviderCancelCalls ==
  {"stripe.subscriptions.cancel", "stripe.subscriptions.update"}

ProviderCalls ==
  ProviderCancelCalls
  \cup {"stripe.customers.create", "stripe.checkout.sessions.create",
        "stripe.billingPortal.sessions.create"}

\* Positions of the provider calls among `calls`.
ProviderCallsIssued(calls) ==
  {i \in 1..Len(calls) : calls[i] \in ProviderCalls}

\* The request is authenticated and its body parses.
CancelWellFormed(l) ==
  /\ l.op = CancelPost
  /\ authenticated(l.ev.session)
  /\ l.ev.body # InvalidJson

\* The provider rejected the cancel or update call of the request.
ProviderCallRejected(l) ==
  /\ l.calls # <<>>
  /\ l.calls[Len(l.calls)] \in ProviderCancelCalls
  /\ l.fail = Len(l.calls)

\* The store answered the lookups, and the user has no Customer or the
\* Customer has no subscription in an active-like status.
NothingToCancel(l) ==
  LET owned == Matching(l.pre.customers, "userId", RequestUser(l)) IN
  \/ l.fail # 1 /\ owned = {}
  \/ /\ l.fail \notin {1, 2}
     /\ owned # {}
     /\ \A c \in owned, i \in 1..Len(l.pre.subscriptions) :
          l.pre.subscriptions[i].customerId = l.pre.customers[c].id
            => l.pre.subscriptions[i].status \notin {"active", "trialing"}

\* C31: in a cancel request the provider call comes before the local write.
\* When the provider rejects its call the request ends in an error with no
\* write call issued, no notification recorded and every row as it was; when
\* the user has no Customer or no active subscription the request ends in an
\* error with no provider call and no write call issued.
C31_CancelProviderFirst ==
  CancelWellFormed(last)
  => /\ ProviderCallRejected(last)
          => /\ last.result = "threw"
             /\ last.error = "StripeError"
             /\ WritesIssued(last.calls) = {}
             /\ last.notes = <<>>
             /\ Store = last.pre
     /\ NothingToCancel(last)
          => /\ last.result = "threw"
             /\ last.error \in {"StripeCustomerNotFoundError",
                                "StripeNoActiveSubscriptionError"}
             /\ ProviderCallsIssued(last.calls) = {}
             /\ WritesIssued(last.calls) = {}
             /\ Store = last.pre
     /\ \A i \in WritesIssued(last.calls), j \in ProviderCallsIssued(last.calls) :
          j < i

\* The provider has rejected the immediate cancel of an active subscription;
\* the row is still active.
C31_Witness ==
  /\ CancelWellFormed(last)
  /\ immediately(last.ev.body)
  /\ ProviderCallRejected(last)
  /\ \E i \in 1..Len(subscriptions) :
       /\ subscriptions[i].stripeSubscriptionId = SubId
       /\ subscriptions[i].status = "active"
       /\ subscriptions[i].customerId = 7
  /\ RequestUser(last) = 1

\* Position of the subscription the request is about: the current one of
\* the requesting user's Customer, before the request.
CancelTarget(l) ==
  LET customer == findBy(l.pre.customers, "userId", RequestUser(l))
      current == findActiveByCustomerId(l.pre.subscriptions, customer.id)
  IN {i \in 1..Len(l.pre.subscriptions) :
        l.pre.subscriptions[i].id = current.id}

\* C32: a cancel request that succeeds has issued one update and changed
\* the row of the user's current subscription only.  With immediately true
\* the row has status canceled and canceledAt and endedAt are the clock
\* readings of the request, in order; with immediately false or omitted the
\* status is as it was, cancelAtPeriodEnd is true and canceledAt is the
\* clock reading of the request.  No other field and no other row changes.
C32_CancelWrites ==
  (CancelWellFormed(last) /\ last.result = "returned")
  => /\ Cardinality(CancelTarget(last)) = 1
     /\ Count(last.calls, UpdateCall) = 1
     /\ Cardinality(WritesIssued(last.calls)) = 1
     /\ last.clock[1] <= last.clock[2] /\ last.clock[2] = now
     /\ OthersKept(subscriptions, last.pre.subscriptions, CancelTarget(last))
     /\ \A i \in CancelTarget(last) :
          subscriptions[i] =
            IF immediately(last.ev.body)
              THEN [last.pre.subscriptions[i] EXCEPT
                      !.status = "canceled",
                      !.canceledAt = last.clock[1],
                      !.endedAt = last.clock[2]]
              ELSE [last.pre.subscriptions[i] EXCEPT
                      !.cancelAtPeriodEnd = TRUE,
                      !.canceledAt = last.clock[1]]
     /\ customers = last.pre.customers
     /\ invoices = last.pre.invoices
     /\ payments = last.pre.payments

\* A cancel request without a body has succeeded on a trialing subscription
\* after the clock had advanced: the row is still trialing and is set to
\* cancel at the period end.
C32_Witness ==
  /\ CancelWellFormed(last)
  /\ last.ev.body = EmptyBody
  /\ last.result = "returned"
  /\ \E i \in CancelTarget(last) :
       /\ last.pre.subscriptions[i].status = "trialing"
       /\ ~last.pre.subscriptions[i].cancelAtPeriodEnd
       /\ subscriptions[i].status = "trialing"
       /\ subscriptions[i].cancelAtPeriodEnd
       /\ subscriptions[i].canceledAt = 1

----------------------------------------------------------------------------
(* Properties of POST /api/stripe/subscription/resume *)

ResumePost == "POST /api/stripe/subscription/resume"

\* Positions of the rows of `pre` the request has changed.
RowsChanged(table, pre) ==
  {i \in 1..Len(pre) : i > Len(table) \/ table[i] # pre[i]}

\* A subscription that can be resumed: set to cancel at the period end and
\* still active or trialing.
Resumable(row) ==
  row.cancelAtPeriodEnd /\ row.status \in {"active", "trialing"}

\* The store answered the lookups, the user has a Customer, and none of its
\* subscriptions can be resumed.
NothingToResume(l) ==
  LET owned == Matching(l.pre.customers, "userId", RequestUser(l)) IN
  /\ l.fail \notin {1, 2}
  /\ owned # {}
  /\ \A c \in owned, i \in 1..Len(l.pre.subscriptions) :
       l.pre.subscriptions[i].customerId = l.pre.customers[c].id
         => ~Resumable(l.pre.subscriptions[i])

\* C33: a resume request changes only a subscription that was set to cancel
\* at the period end and was active or trialing, so never an ended one; when
\* the user's Customer has no such subscription the request fails with a
\* validation error, without a provider call or a store write; a request
\* that succeeds has left the row with cancelAtPeriodEnd false and
\* canceledAt null.
C33_ResumeOnlyPending ==
  last.op = ResumePost
  => /\ Len(subscriptions) = Len(last.pre.subscriptions)
     /\ \A i \in RowsChanged(subscriptions, last.pre.subscriptions) :
          /\ Resumable(last.pre.subscriptions[i])
          /\ last.pre.subscriptions[i].status # "canceled"
     /\ (authenticated(last.ev.session) /\ NothingToResume(last))
          => /\ last.result = "threw"
             /\ last.error = "ValidationError"
             /\ ProviderCallsIssued(last.calls) = {}
             /\ WritesIssued(last.calls) = {}
             /\ subscriptions = last.pre.subscriptions
     /\ last.result = "returned"
          => \E i \in 1..Len(subscriptions) :
               /\ Resumable(last.pre.subscriptions[i])
               /\ OthersKept(subscriptions, last.pre.subscriptions, {i})
               /\ subscriptions[i] =
                    [last.pre.subscriptions[i] EXCEPT
                       !.cancelAtPeriodEnd = FALSE, !.canceledAt = NULL]
     /\ customers = last.pre.customers
     /\ invoices = last.pre.invoices
     /\ payments = last.pre.payments

\* A resume request of a user whose subscription has ended while it was set
\* to cancel at the period end is rejected, and the row is as it was.
C33_Witness ==
  /\ last.op = ResumePost
  /\ authenticated(last.ev.session)
  /\ NothingToResume(last)
  /\ last.error = "ValidationError"
  /\ \E i \in 1..Len(subscriptions) :
       /\ subscriptions[i].customerId = 7
       /\ subscriptions[i].status = "canceled"
       /\ subscriptions[i].cancelAtPeriodEnd
       /\ subscriptions[i] = last.pre.subscriptions[i]

----------------------------------------------------------------------------
(* Specification of a cancel followed by a resume: up to two requests to
   subscription/cancel and subscription/resume, with the subscriptions the
   store held before the first one kept in inv.start and the requests made
   so far in inv.done *)

MaxRequests == 2

Request(op, body, r) == [op |-> op, body |-> body, result |-> r.result]

CancelThenResume(session, body, fail, t1, t2) ==
  LET r == postCancel(session, body, fail, t1, t2) IN
  /\ Reached(fail, r)
  /\ r.result = "threw" => t1 = now /\ t2 = now
  /\ subscriptions' = r.store.subscriptions
  /\ now' = t2
  /\ last' = [Requested(CancelPost, session, body, fail, r)
                EXCEPT !.clock = <<t1, t2>>]
  /\ inv' = [inv EXCEPT !.done = Append(@, Request(CancelPost, body, r))]

TripCancel ==
  /\ last = Idle
  /\ Len(inv.done) < MaxRequests
  /\ \E session \in AuthSessions, body \in CancelBodies, fail \in 0..5,
        t1 \in now..MaxTime, t2 \in now..MaxTime :
       t1 <= t2 /\ CancelThenResume(session, body, fail, t1, t2)
  /\ UNCHANGED <<customers, invoices, payments, stripe>>

TripResume ==
  /\ last = Idle
  /\ Len(inv.done) < MaxRequests
  /\ \E session \in AuthSessions, fail \in 0..5 :
       LET r == postResume(session, fail) IN
       /\ Reached(fail, r)
       /\ subscriptions' = r.store.subscriptions
       /\ last' = Requested(ResumePost, session, NullRef, fail, r)
       /\ inv' = [inv EXCEPT !.done = Append(@, Request(ResumePost, NullRef, r))]
  /\ UNCHANGED <<customers, invoices, payments, now, stripe>>

InitTrip ==
  /\ customers = <<TheCustomer>>
  /\ subscriptions \in BillingSubscriptions
  /\ invoices = <<>>
  /\ payments = <<>>
  /\ now = 0
  /\ last = Idle
  /\ inv = [start |-> subscriptions, done |-> <<>>]
  /\ stripe = TheProvider

NextTrip ==
  \/ TripCancel
  \/ TripResume
  \/ clearAllMocks

SpecTrip == InitTrip /\ [][NextTrip]_vars

\* A cancel at the period end that succeeded, then a resume that succeeded.
RoundTripDone ==
  /\ Len(inv.done) = 2
  /\ inv.done[1].op = CancelPost
  /\ inv.done[1].body # InvalidJson
  /\ ~immediately(inv.done[1].body)
  /\ inv.done[1].result = "returned"
  /\ inv.done[2].op = ResumePost
  /\ inv.done[2].result = "returned"

\* Before the first request no active or trialing subscription was set to
\* cancel at the period end or had a cancellation stamp.
StartedClean ==
  \A i \in 1..Len(inv.start) :
    inv.start[i].status \in {"active", "trialing"}
      => ~inv.start[i].cancelAtPeriodEnd /\ inv.start[i].canceledAt = NULL

\* C34: a cancel at the period end followed by a resume, both successful,
\* on an active or trialing subscription that was not set to cancel and had
\* no cancellation stamp, leaves every subscription row as it was before
\* the cancel: cancelAtPeriodEnd false, canceledAt null, status and all
\* other fields unchanged.
C34_CancelResumeRoundTrip ==
  (RoundTripDone /\ StartedClean) => subscriptions = inv.start

\* The round trip has been made on a trialing subscription, with the cancel
\* stamped at a later time than the start.
C34_Witness ==
  /\ RoundTripDone
  /\ StartedClean
  /\ now = 1
  /\ \E i \in 1..Len(subscriptions) :
       /\ subscriptions[i].status = "trialing"
       /\ subscriptions[i].canceledAt = NULL
       /\ ~subscriptions[i].cancelAtPeriodEnd

----------------------------------------------------------------------------
(* Properties of POST /api/stripe/checkout/subscription *)

SubscriptionCheckoutPost == "POST /api/stripe/checkout/subscription"

\* Before the request the user had a Customer with an active subscription.
HadActiveSubscription(l) ==
  \E c \in Matching(l.pre.customers, "userId", RequestUser(l)),
     i \in 1..Len(l.pre.subscriptions) :
    /\ l.pre.subscriptions[i].customerId = l.pre.customers[c].id
    /\ l.pre.subscriptions[i].status = "active"

\* C35: a subscription checkout request of a user whose Customer has an
\* active subscription fails without a provider customer, a checkout
\* session or a store write; when the request is well formed and the store
\* answers the two lookups the error is a validation error.
C35_NoCheckoutWhileSubscribed ==
  (/\ last.op = SubscriptionCheckoutPost
   /\ authenticated(last.ev.session)
   /\ HadActiveSubscription(last))
  => /\ last.result = "threw"
     /\ last.fail \notin {1, 2} => last.error = "ValidationError"
     /\ ProviderCallsIssued(last.calls) = {}
     /\ WritesIssued(last.calls) = {}
     /\ last.session = NullRef
     /\ stripe = last.preStripe
     /\ Store = last.pre

\* A well-formed request of a subscribed user has been refused after the
\* two lookups.
C35_Witness ==
  /\ last.op = SubscriptionCheckoutPost
  /\ authenticated(last.ev.session)
  /\ HadActiveSubscription(last)
  /\ last.ev.body # InvalidJson
  /\ last.ev.body.priceId # UNDEFINED
  /\ last.error = "ValidationError"
  /\ last.calls = <<"customers.findByUserId",
                    "subscriptions.findActiveByCustomerId">>

\* The request has created a checkout session.
SessionCreated(l) ==
  /\ l.op = SubscriptionCheckoutPost
  /\ l.session # NullRef

\* Subscription rows, of any status, of the customer the session is for.
EarlierSubscriptions(l) ==
  {i \in 1..Len(l.pre.subscriptions) :
     \E c \in 1..Len(customers) :
       /\ customers[c].stripeCustomerId = l.session.customer
       /\ l.pre.subscriptions[i].customerId = customers[c].id}

\* trialDays of the body, or of the plan when the body has none.
EffectiveTrialDays(body) ==
  IF body.trialDays # NULL THEN body.trialDays
  ELSE IF body.priceId = "price_starter_monthly" THEN 14
  ELSE 0

\* C36: a subscription checkout session carries trial_period_days only when
\* the effective trial days, from the body or from the plan, are above 0
\* and the customer has no Subscription row; a session for a customer with
\* a Subscription row of any status carries none.
C36_TrialOnlyForFirstSubscription ==
  SessionCreated(last)
  => /\ last.session.trial_period_days # NULL
          => /\ EffectiveTrialDays(last.ev.body) > 0
             /\ last.session.trial_period_days
                  = EffectiveTrialDays(last.ev.body)
             /\ EarlierSubscriptions(last) = {}
     /\ EarlierSubscriptions(last) # {}
          => last.session.trial_period_days = NULL

\* A session has been created without a trial for a customer whose only
\* subscription had ended, although the plan of the price has trial days.
C36_Witness ==
  /\ SessionCreated(last)
  /\ last.ev.body.trialDays = NULL
  /\ EffectiveTrialDays(last.ev.body) = 14
  /\ EarlierSubscriptions(last) # {}
  /\ \A i \in EarlierSubscriptions(last) :
       last.pre.subscriptions[i].status = "canceled"
  /\ last.session.trial_period_days = NULL

----------------------------------------------------------------------------
(* Properties of all the billing endpoints *)

BillingEndpoints ==
  {CheckoutPost, SubscriptionCheckoutPost, "POST /api/stripe/portal",
   "GET /api/stripe/subscription", CancelPost, ResumePost,
   "GET /api/stripe/customer"}

\* auth() gave no session, or one whose user has no email.
NoEmail(session) ==
  \/ session = NullRef
  \/ "email" \notin DOMAIN session.user
  \/ session.user.email = ""

\* C37: a request to any of the seven billing endpoints that comes without
\* a session carrying an email fails with an authentication error, and no
\* store read, store write or provider call has been made for it.
C37_UnauthenticatedRejectedFirst ==
  (last.op \in BillingEndpoints /\ NoEmail(last.ev.session))
  => /\ last.result = "threw"
     /\ last.error = "AuthenticationError"
     /\ last.calls = <<>>
     /\ last.notes = <<>>
     /\ Store = last.pre
     /\ stripe = last.preStripe

\* A cancel request of the user who has a subscription, with a session that
\* carries no email, has been rejected.
C37_Witness ==
  /\ last.op = CancelPost
  /\ last.ev.session # NullRef
  /\ "email" \notin DOMAIN last.ev.session.user
  /\ last.ev.body = [immediately |-> TRUE]
  /\ last.error = "AuthenticationError"
  /\ \E i \in 1..Len(subscriptions) :
       /\ subscriptions[i].customerId = 7
       /\ subscriptions[i].status = "active"

----------------------------------------------------------------------------
(* The provider client: getStripeClient and resetStripeClient.  The client
   module's state is kept in inv: stripeInstance is the cached instance or
   null, cloudflare and processEnv are what the two environments hold for
   STRIPE_SECRET_KEY, made counts the instances constructed so far, and log
   lists the calls made *)

MaxClientCalls == 5

\* getCloudflareEnv() throws outside a Cloudflare context; otherwise the
\* key is undefined, empty or set.
CloudflareKeys == {"throws", UNDEFINED, "", "sk_cf"}
ProcessKeys == {UNDEFINED, "", "sk_env"}

\* secretKey after both lookups: the Cloudflare key unless it is missing or
\* empty, then the one of process.env.
secretKey(c) ==
  LET first == IF c.cloudflare = "throws" THEN UNDEFINED ELSE c.cloudflare
  IN IF first \in {UNDEFINED, ""} THEN c.processEnv ELSE first

\* Mutant of getStripeClient: an instance is built on every call.
getStripeClientUncached(c) ==
  IF secretKey(c) \in {UNDEFINED, ""}
    THEN [result |-> "threw", error |-> "StripeConfigError", value |-> NullRef,
          stripeInstance |-> c.stripeInstance, made |-> c.made]
  ELSE LET built == [n |-> c.made + 1, key |-> secretKey(c)] IN
       [result |-> "returned", error |-> "none", value |-> built,
        stripeInstance |-> built, made |-> c.made + 1]

getStripeClient(c) ==
  IF c.stripeInstance # NullRef
    THEN [result |-> "returned", error |-> "none",
          value |-> c.stripeInstance,
          stripeInstance |-> c.stripeInstance, made |-> c.made]
  ELSE IF secretKey(c) \in {UNDEFINED, ""}
    THEN [result |-> "threw", error |-> "StripeConfigError", value |-> NullRef,
          stripeInstance |-> c.stripeInstance, made |-> c.made]
  ELSE LET built == [n |-> c.made + 1, key |-> secretKey(c)] IN
       [result |-> "returned", error |-> "none", value |-> built,
        stripeInstance |-> built, made |-> c.made + 1]

ClientCall(op, r) ==
  [op |-> op, result |-> r.result, error |-> r.error, value |-> r.value]

GetStripeClient ==
  /\ Len(inv.log) < MaxClientCalls
  /\ LET r == getStripeClient(inv) IN
     /\ inv' = [inv EXCEPT !.stripeInstance = r.stripeInstance,
                           !.made = r.made,
                           !.log = Append(@, ClientCall("getStripeClient", r))]
     /\ last' = ClientCall("getStripeClient", r)
  /\ UNCHANGED <<customers, subscriptions, invoices, payments, now, stripe>>

ResetStripeClient ==
  /\ Len(inv.log) < MaxClientCalls
  /\ LET r == [result |-> "returned", error |-> "none", value |-> NullRef] IN
     /\ inv' = [inv EXCEPT !.stripeInstance = NullRef,
                           !.log = Append(@, ClientCall("resetStripeClient", r))]
     /\ last' = ClientCall("resetStripeClient", r)
  /\ UNCHANGED <<customers, subscriptions, invoices, payments, now, stripe>>

\* The deployment or a test sets or removes the secret key.
Configure ==
  /\ \E cf \in CloudflareKeys, pe \in ProcessKeys :
       /\ <<cf, pe>> # <<inv.cloudflare, inv.processEnv>>
       /\ inv' = [inv EXCEPT !.cloudflare = cf, !.processEnv = pe]
  /\ UNCHANGED <<customers, subscriptions, invoices, payments, now, last,
                 stripe>>

InitClient ==
  /\ customers = <<>>
  /\ subscriptions = <<>>
  /\ invoices = <<>>
  /\ payments = <<>>
  /\ now = 0
  /\ last = Idle
  /\ \E cf \in CloudflareKeys, pe \in ProcessKeys :
       inv = [stripeInstance |-> NullRef, cloudflare |-> cf, processEnv |-> pe,
              made |-> 0, log |-> <<>>]
  /\ stripe = TheProvider

NextClient ==
  \/ GetStripeClient
  \/ ResetStripeClient
  \/ Configure

SpecClient == InitClient /\ [][NextClient]_vars

\* One of the two environments holds a non-empty secret key.
KeyConfigured(c) ==
  \/ c.cloudflare \notin {"throws", UNDEFINED, ""}
  \/ c.processEnv \notin {UNDEFINED, ""}

\* The step is a call of `op`, logged as the last entry of the new log.
Calls(op) ==
  /\ Len(inv'.log) = Len(inv.log) + 1
  /\ inv'.log[Len(inv'.log)].op = op

Answer == inv'.log[Len(inv'.log)]

ClientStep ==
  /\ (Calls("getStripeClient") /\ inv.stripeInstance # NullRef)
       => /\ Answer.result = "returned"
          /\ Answer.value = inv.stripeInstance
          /\ inv'.stripeInstance = inv.stripeInstance
          /\ inv'.made = inv.made
  /\ (Calls("getStripeClient") /\ inv.stripeInstance = NullRef
        /\ KeyConfigured(inv))
       => /\ Answer.result = "returned"
          /\ Answer.value # NullRef
          /\ Answer.value.n = inv.made + 1
          /\ inv'.stripeInstance = Answer.value
          /\ inv'.made = inv.made + 1
  /\ (Calls("getStripeClient") /\ inv.stripeInstance = NullRef
        /\ ~KeyConfigured(inv))
       => /\ Answer.result = "threw"
          /\ Answer.error = "StripeConfigError"
          /\ inv'.stripeInstance = NullRef
          /\ inv'.made = inv.made
  /\ Calls("resetStripeClient") => inv'.stripeInstance = NullRef
  /\ Len(inv'.log) = Len(inv.log)
       => inv'.stripeInstance = inv.stripeInstance /\ inv'.made = inv.made

\* C38: getStripeClient returns the cached instance when there is one and
\* leaves it cached; with none cached and a secret key configured it builds
\* an instance no earlier call returned and caches it; with none cached and
\* no key it throws a configuration error and caches nothing;
\* resetStripeClient empties the cache, and nothing else changes it.
C38_ClientSingleton == [][ClientStep]_vars

\* A call without a key threw, the next one, with a key, built an instance,
\* the one after returned the same instance, and after a reset a call built
\* another one.
C38_Witness ==
  /\ Len(inv.log) = 5
  /\ inv.log[1].result = "threw"
  /\ inv.log[2].op = "getStripeClient" /\ inv.log[2].result = "returned"
  /\ inv.log[3].op = "getStripeClient" /\ inv.log[3].value = inv.log[2].value
  /\ inv.log[4].op = "resetStripeClient"
  /\ inv.log[5].op = "getStripeClient" /\ inv.log[5].result = "returned"
  /\ inv.log[5].value # inv.log[2].value

----------------------------------------------------------------------------
(* createStripeErrorFromSDK.  inv.input is the value a catch block caught
   and inv.outputs lists what the function returned for it and then for
   its own result *)

MaxApplications == 2

STRIPE_ERROR_STATUS_MAP ==
  [CONFIG_ERROR |-> 500, MISSING_SECRET_KEY |-> 500,
   MISSING_WEBHOOK_SECRET |-> 500,
   WEBHOOK_SIGNATURE_INVALID |-> 400, WEBHOOK_PARSE_ERROR |-> 400,
   WEBHOOK_EVENT_ALREADY_PROCESSED |-> 200,
   CUSTOMER_NOT_FOUND |-> 404, CUSTOMER_CREATE_FAILED |-> 500,
   PAYMENT_FAILED |-> 400, PAYMENT_NOT_FOUND |-> 404,
   CHECKOUT_SESSION_CREATE_FAILED |-> 500,
   SUBSCRIPTION_NOT_FOUND |-> 404, SUBSCRIPTION_CREATE_FAILED |-> 500,
   SUBSCRIPTION_CANCEL_FAILED |-> 500, SUBSCRIPTION_UPDATE_FAILED |-> 500,
   NO_ACTIVE_SUBSCRIPTION |-> 400,
   PORTAL_SESSION_CREATE_FAILED |-> 500,
   API_ERROR |-> 502, RATE_LIMIT_ERROR |-> 429]

\* new StripeError(message, stripeErrorType, details)
StripeError(message, stripeErrorType, details) ==
  [kind |-> "StripeError", message |-> message,
   stripeErrorType |-> stripeErrorType,
   statusCode |-> STRIPE_ERROR_STATUS_MAP[stripeErrorType],
   details |-> details]

\* error instanceof StripeError
IsStripeError(error) == error.kind = "StripeError"

SdkTypes ==
  {"StripeCardError", "StripeRateLimitError", "StripeInvalidRequestError",
   "StripeAPIError", "StripeConnectionError", "StripeAuthenticationError",
   "StripeIdempotencyError", "DATABASE_ERROR"}

\* Values a catch block can hold: an error of this layer, an object with or
\* without a `type` key that is or is not an Error, null, undefined and a
\* string.
ThrownValues ==
  { StripeError(m, t, Absent) :
      m \in {"", "declined"}, t \in DOMAIN STRIPE_ERROR_STATUS_MAP }
  \cup { [kind |-> "object", isError |-> e, hasType |-> TRUE, type |-> t,
          message |-> m] :
           e \in BOOLEAN, t \in SdkTypes, m \in {UNDEFINED, "", "declined"} }
  \cup { [kind |-> "object", isError |-> e, hasType |-> FALSE,
          type |-> UNDEFINED, message |-> m] :
           e \in BOOLEAN, m \in {"", "declined"} }
  \cup { [kind |-> "null"], [kind |-> "undefined"], [kind |-> "string"] }

\* message || 'Unknown Stripe error'
messageOrUnknown(message) ==
  IF message \in {UNDEFINED, ""} THEN "Unknown Stripe error" ELSE message

\* Mutant of createStripeErrorFromSDK: an error of this layer is wrapped
\* like any other Error.
createStripeErrorFromSDKWrapsAll(error) ==
  IF error.kind \in {"object", "StripeError"}
    THEN StripeError(error.message, "API_ERROR", error)
  ELSE StripeError("Unknown Stripe error", "API_ERROR", error)

createStripeErrorFromSDK(error) ==
  IF IsStripeError(error) THEN error
  ELSE IF error.kind = "object" /\ error.hasType THEN
    CASE error.type = "StripeCardError" ->
           StripeError(error.message, "PAYMENT_FAILED", error)
      [] error.type = "StripeRateLimitError" ->
           StripeError("Too many requests to Stripe API", "RATE_LIMIT_ERROR",
                       error)
      [] error.type = "StripeInvalidRequestError" ->
           StripeError(error.message, "API_ERROR", error)
      [] error.type = "StripeAPIError" ->
           StripeError(error.message, "API_ERROR", error)
      [] error.type = "StripeConnectionError" ->
           StripeError("Failed to connect to Stripe", "API_ERROR", error)
      [] error.type = "StripeAuthenticationError" ->
           StripeError("Stripe authentication failed", "CONFIG_ERROR", error)
      [] OTHER ->
           StripeError(messageOrUnknown(error.message), "API_ERROR", error)
  ELSE IF error.kind = "object" /\ error.isError
    THEN StripeError(error.message, "API_ERROR", error)
  ELSE StripeError("Unknown Stripe error", "API_ERROR", error)

\* The function is applied to the caught value, then to its own result.
CreateStripeErrorFromSDK ==
  /\ Len(inv.outputs) < MaxApplications
  /\ LET error == IF inv.outputs = <<>> THEN inv.input
                  ELSE inv.outputs[Len(inv.outputs)]
         value == createStripeErrorFromSDK(error)
     IN /\ inv' = [inv EXCEPT !.outputs = Append(@, value)]
        /\ last' = [op |-> "createStripeErrorFromSDK", ev |-> error,
                    result |-> "returned", value |-> value]
  /\ UNCHANGED <<customers, subscriptions, invoices, payments, now, stripe>>

InitErrors ==
  /\ customers = <<>>
  /\ subscriptions = <<>>
  /\ invoices = <<>>
  /\ payments = <<>>
  /\ now = 0
  /\ last = Idle
  /\ \E error \in ThrownValues : inv = [input |-> error, outputs |-> <<>>]
  /\ stripe = TheProvider

NextErrors == CreateStripeErrorFromSDK

SpecErrors == InitErrors /\ [][NextErrors]_vars

\* The status code the claim gives a value that is not an error of this
\* layer, by the `type` it carries.
ClaimedStatus(error) ==
  IF error.kind = "object" /\ error.hasType
    THEN CASE error.type = "StripeCardError" -> 400
           [] error.type = "StripeRateLimitError" -> 429
           [] error.type = "StripeAuthenticationError" -> 500
           [] OTHER -> 502
  ELSE 502

\* C39: createStripeErrorFromSDK answers every value with an error of this
\* layer whose status code is the STRIPE_ERROR_STATUS_MAP entry of its type;
\* an error of this layer is returned as it is, so applying the function to
\* its own result changes nothing; any other value gets 400 for a card
\* error, 429 for a rate-limit error, 500 for an authentication error and
\* 502 otherwise.
C39_ErrorConversion ==
  \A k \in 1..Len(inv.outputs) :
    /\ IsStripeError(inv.outputs[k])
    /\ inv.outputs[k].statusCode
         = STRIPE_ERROR_STATUS_MAP[inv.outputs[k].stripeErrorType]
    /\ (k = 1 /\ inv.input.kind = "StripeError")
         => inv.outputs[k] = inv.input
    /\ (k = 1 /\ inv.input.kind # "StripeError")
         => inv.outputs[k].statusCode = ClaimedStatus(inv.input)
    /\ k > 1 => inv.outputs[k] = inv.outputs[k - 1]

\* A card error of the provider's SDK has been converted, and the result
\* converted again.
C39_Witness ==
  /\ Len(inv.outputs) = 2
  /\ inv.input.kind = "object"
  /\ inv.input.type = "StripeCardError"
  /\ inv.outputs[1].statusCode = 400
  /\ inv.outputs[2] = inv.outputs[1]

----------------------------------------------------------------------------
(* Specification of a redelivered customer.subscription.deleted event: the
   event in inv.event is delivered up to twice to a store that holds the
   subscription's row, and inv.done lists the subscriptions after each
   delivery *)

MaxDeliveries == 2

Redeliver ==
  /\ last = Idle
  /\ Len(inv.done) < MaxDeliveries
  /\ \E fail \in {0, 2}, t1 \in now..MaxTime :
       \E t2 \in t1..MaxTime :
         LET o == handleSubscriptionDeleted(inv.event, fail, t1, t2) IN
         /\ subscriptions' = o.table
         /\ now' = t2
         /\ last' = Observe("customer.subscription.deleted",
                            inv.event @@ [clock |-> <<t1, t2>>],
                            subscriptions, o)
         /\ inv' = [inv EXCEPT !.done = Append(@, o.table)]
  /\ UNCHANGED <<customers, invoices, payments, stripe>>

InitRedeliver ==
  /\ customers = <<TheCustomer>>
  /\ \E st \in {"active", "trialing", "past_due"}, cape \in BOOLEAN :
       subscriptions = <<OtherSubscription, CurrentSubscription(st, cape)>>
  /\ invoices = <<>>
  /\ payments = <<>>
  /\ now = 0
  /\ last = Idle
  /\ \E ev \in SubscriptionDeletedEvents : inv = [event |-> ev, done |-> <<>>]
  /\ stripe = TheProvider

NextRedeliver ==
  \/ Redeliver
  \/ clearAllMocks

SpecRedeliver == InitRedeliver /\ [][NextRedeliver]_vars

\* C40: after the same deleted event has been processed twice, the stored
\* subscriptions, canceledAt and endedAt included, are what they were after
\* it had been processed once, whether or not the payload carries
\* canceled_at and ended_at and whatever time passed in between.
C40_DeletedTwiceAsOnce ==
  Len(inv.done) = 2 => inv.done[2] = inv.done[1]

====
